---------------------------- MODULE Spec2Model ----------------------------
(***************************************************************************)
(* Model of the VAP MCP proxy (src/mcp/vap_mcp_proxy.py): the stdio        *)
(* JSON-RPC session loop, the method and tool dispatch, the tool handlers  *)
(* and the three transport functions.                                      *)
(*                                                                         *)
(* JSON values are tagged records, so that values of different JSON types  *)
(* can be compared, and so that Python's None (the default of dict.get)    *)
(* and JSON null are the same value, as they are in the program.           *)
(***************************************************************************)
EXTENDS Integers, Sequences, FiniteSets, TLC

(***************************************************************************)
(* Bounds                                                                  *)
(***************************************************************************)
\* number of input lines read from stdin in one session
MaxLines == 2

(***************************************************************************)
(* JSON / Python values                                                    *)
(***************************************************************************)
JNull == [t |-> "null"]
JNum(n) == [t |-> "num", v |-> n]
JStr(s) == [t |-> "str", v |-> s]
JBool(b) == [t |-> "bool", v |-> b]
\* a float with two decimals, held in hundredths: JDec(240) is 2.40
JDec(c) == [t |-> "dec", v |-> c]
JList(s) == [t |-> "list", v |-> s]
JDict(f) == [t |-> "dict", v |-> f]

\* Python's None is what json.loads gives for null
None == JNull
EmptyDict == JDict(<<>>)

IsDict(x) == x.t = "dict"
IsStr(x) == x.t = "str"
IsList(x) == x.t = "list"

\* truth value of a Python object (`not x`, `x or y`, `if x`)
Truthy(x) ==
    CASE x.t = "null" -> FALSE
      [] x.t = "num"  -> x.v # 0
      [] x.t = "dec"  -> x.v # 0
      [] x.t = "str"  -> x.v # ""
      [] x.t = "bool" -> x.v
      [] x.t = "list" -> x.v # <<>>
      [] x.t = "dict" -> DOMAIN x.v # {}

\* type(x).__name__
PyTypeName(x) ==
    CASE x.t = "null" -> "NoneType"
      [] x.t = "num"  -> "int"
      [] x.t = "dec"  -> "float"
      [] x.t = "str"  -> "str"
      [] x.t = "bool" -> "bool"
      [] x.t = "list" -> "list"
      [] x.t = "dict" -> "dict"

Digit(d) ==
    CASE d = 0 -> "0" [] d = 1 -> "1" [] d = 2 -> "2" [] d = 3 -> "3"
      [] d = 4 -> "4" [] d = 5 -> "5" [] d = 6 -> "6" [] d = 7 -> "7"
      [] d = 8 -> "8" [] d = 9 -> "9"

RECURSIVE NatStr(_)
NatStr(n) == IF n < 10 THEN Digit(n) ELSE NatStr(n \div 10) \o Digit(n % 10)

\* str(f) of a float: the shortest form, with at least one decimal
DecStr(c) ==
    NatStr(c \div 100) \o "." \o
    (IF c % 10 = 0 THEN Digit((c % 100) \div 10)
     ELSE Digit((c % 100) \div 10) \o Digit(c % 10))

\* f"{f:.2f}": always two decimals
DecStr2(c) == NatStr(c \div 100) \o "." \o Digit((c % 100) \div 10) \o Digit(c % 10)

\* str(x), as used by f-strings, for the values that reach an f-string here
PyStr(x) ==
    CASE x.t = "null" -> "None"
      [] x.t = "num"  -> NatStr(x.v)
      [] x.t = "dec"  -> DecStr(x.v)
      [] x.t = "str"  -> x.v
      [] x.t = "bool" -> IF x.v THEN "True" ELSE "False"
      [] x.t = "list" -> IF x.v = <<>> THEN "[]" ELSE "[...]"
      [] x.t = "dict" -> IF DOMAIN x.v = {} THEN "{}" ELSE "{...}"

\* outcome of evaluating a Python expression: a value, or a raised exception
Ok(v) == [raised |-> FALSE, value |-> v]
Raise(exc, msg) == [raised |-> TRUE, exc |-> exc, msg |-> msg]

\* d.get(k, default) on a dict
DictGet(d, k, default) == IF k \in DOMAIN d.v THEN d.v[k] ELSE default

\* x.get(k, default) on any object: AttributeError unless x is a dict
PyGet(x, k, default) ==
    IF IsDict(x) THEN Ok(DictGet(x, k, default))
    ELSE Raise("AttributeError",
               "'" \o PyTypeName(x) \o "' object has no attribute 'get'")

\* the strings of the model's universe that contain the substring "error"
StringsContainingError == {"error", "upstream error"}

\* `"error" in x`: key of a dict, element of a list, substring of a string,
\* TypeError for every other type
PyInError(x) ==
    CASE x.t = "dict" -> Ok("error" \in DOMAIN x.v)
      [] x.t = "list" -> Ok(\E i \in 1..Len(x.v) : x.v[i] = JStr("error"))
      [] x.t = "str"  -> Ok(x.v \in StringsContainingError)
      [] OTHER -> Raise("TypeError",
                   "argument of type '" \o PyTypeName(x) \o "' is not iterable")

\* x["error"], evaluated only after `"error" in x` was true
PyIndexError(x) ==
    CASE x.t = "dict" -> Ok(x.v["error"])
      [] x.t = "list" -> Raise("TypeError",
                           "list indices must be integers or slices, not str")
      [] x.t = "str"  -> Raise("TypeError", "string indices must be integers")
      [] OTHER -> Raise("TypeError",
                   "'" \o PyTypeName(x) \o "' object is not subscriptable")


(***************************************************************************)
(* Transport: what the remote does is an outcome record                    *)
(*   [kind |-> "ok", body |-> v]        2xx answer whose body decodes to v  *)
(*   [kind |-> "exception", text |-> s] no answer (connect failure,        *)
(*                                      timeout) or an undecodable 2xx     *)
(*                                      body; s is str(e)                  *)
(*   [kind |-> "status", text |-> s, json |-> b, body |-> v, raw |-> r]    *)
(*                                      non-2xx answer: raise_for_status   *)
(*                                      raises e with e.response set;      *)
(*                                      json tells whether the body        *)
(*                                      decodes (to v); r is the body text *)
(***************************************************************************)
TimeoutMcp == 60
TimeoutV3Post == 120
TimeoutV3Get == 30

ErrorSentinel(text) == JDict([error |-> text])

\* e.response.text[:500]; the body texts of the model are short
RawLimit == 500

\* a body text of 501 characters, and its first 500
Text100 ==
    "0123456789012345678901234567890123456789012345678901234567890123456789012345678901234567890123456789"
Text500 == Text100 \o Text100 \o Text100 \o Text100 \o Text100
LongText == Text500 \o "X"

\* r[:500]
Truncate(r) ==
    IF Len(r) <= RawLimit THEN r
    ELSE CASE r = LongText -> Text500

make_request(outcome) ==
    IF outcome.kind = "ok" THEN outcome.body
    ELSE ErrorSentinel(JStr(outcome.text))

\* the error_detail of make_v3_request's except branch
V3ErrorDetail(outcome) ==
    IF outcome.kind = "exception" THEN JStr(outcome.text)
    ELSE IF ~outcome.json
         THEN IF outcome.raw # "" THEN JStr(Truncate(outcome.raw))
              ELSE JStr(outcome.text)
    ELSE IF ~IsDict(outcome.body) THEN JStr(outcome.text)
    ELSE LET detail == DictGet(outcome.body, "detail", EmptyDict)
         IN  IF IsDict(detail)
                  THEN DictGet(detail, "message", JStr(PyStr(detail)))
             ELSE IF IsStr(detail) THEN detail
             ELSE JStr(PyStr(outcome.body))

make_v3_request(outcome) ==
    IF outcome.kind = "ok" THEN outcome.body
    ELSE ErrorSentinel(V3ErrorDetail(outcome))

make_v3_get_request(outcome) ==
    IF outcome.kind = "ok" THEN outcome.body
    ELSE ErrorSentinel(JStr(outcome.text))

\* the value the transport function fn returns for a remote outcome
Transport(fn, outcome) ==
    CASE fn = "make_request"        -> make_request(outcome)
      [] fn = "make_v3_request"     -> make_v3_request(outcome)
      [] fn = "make_v3_get_request" -> make_v3_get_request(outcome)

(***************************************************************************)
(* A handler runs in two parts: up to its transport call, and after it.    *)
(* The first part ends with Done(outcome) when the handler finishes        *)
(* without a transport call, or with the call it issues.                   *)
(***************************************************************************)
Done(res) == [k |-> "done", res |-> res]
Call(fn, verb, endpoint, payload, timeout) ==
    [k |-> "call", fn |-> fn, verb |-> verb, endpoint |-> endpoint,
     payload |-> payload, timeout |-> timeout]

TextContent(text) == JList(<<JDict([type |-> JStr("text"), text |-> JStr(text)])>>)
ToolError(text) == JDict([isError |-> JBool(TRUE), content |-> TextContent(text)])
ToolResult(text) == JDict([content |-> TextContent(text)])

handle_initialize_start(params) ==
    IF ~IsDict(params) THEN Done(PyGet(params, "protocolVersion", None))
    ELSE Call("make_request", "POST", "/initialize",
              JDict([protocolVersion |-> DictGet(params, "protocolVersion", None),
                     capabilities |-> DictGet(params, "capabilities", EmptyDict),
                     clientInfo |-> DictGet(params, "clientInfo", EmptyDict)]),
              TimeoutMcp)

handle_tools_list_start(params) ==
    Call("make_request", "POST", "/tools/list", EmptyDict, TimeoutMcp)

handle_resources_list_start(params) ==
    Call("make_request", "POST", "/resources/list", EmptyDict, TimeoutMcp)

handle_resources_read_start(params) ==
    IF ~IsDict(params) THEN Done(PyGet(params, "uri", None))
    ELSE Call("make_request", "POST", "/resources/read",
              JDict([params |-> JDict([uri |-> DictGet(params, "uri", None)])]),
              TimeoutMcp)


(***************************************************************************)
(* Video tools (generate_video, estimate_video_cost)                       *)
(***************************************************************************)
VIDEO_COSTS_WITH_AUDIO == (4 :> 240) @@ (6 :> 360) @@ (8 :> 480)
VIDEO_COSTS_NO_AUDIO == (4 :> 120) @@ (6 :> 180) @@ (8 :> 240)
DefaultCost == 480

ValidDurations == {JNum(4), JNum(6), JNum(8)}
ValidAspectRatios == {JStr("16:9"), JStr("9:16")}
ValidResolutions == {JStr("720p"), JStr("1080p")}

\* as ClampDuration, with the nearest valid duration in place of the default
ClampDurationNearest(d) ==
    IF d \in ValidDurations THEN d
    ELSE IF d.t # "num" THEN JNum(8)
    ELSE IF d.v <= 5 THEN JNum(4)
    ELSE IF d.v <= 7 THEN JNum(6)
    ELSE JNum(8)

ClampDuration(d) == IF d \notin ValidDurations THEN JNum(8) ELSE d
ClampAspectRatio(a) == IF a \notin ValidAspectRatios THEN JStr("16:9") ELSE a
ClampResolution(r) == IF r \notin ValidResolutions THEN JStr("720p") ELSE r

\* as TableCost, with the table with audio for every call
TableCostWithAudio(duration, generate_audio) ==
    IF duration.t = "num" /\ duration.v \in DOMAIN VIDEO_COSTS_WITH_AUDIO
    THEN VIDEO_COSTS_WITH_AUDIO[duration.v] ELSE DefaultCost

\* cost_table.get(duration, 4.80) for a clamped duration
TableCost(duration, generate_audio) ==
    LET cost_table == IF Truthy(generate_audio) THEN VIDEO_COSTS_WITH_AUDIO
                      ELSE VIDEO_COSTS_NO_AUDIO
    IN  IF duration.t = "num" /\ duration.v \in DOMAIN cost_table
        THEN cost_table[duration.v] ELSE DefaultCost

YesNo(flag) == IF Truthy(flag) THEN "Yes" ELSE "No"

\* the params of the task-creation payload
VideoParams(arguments) ==
    LET negative_prompt == DictGet(arguments, "negative_prompt", JStr(""))
        base == [prompt |-> DictGet(arguments, "prompt", JStr("")),
                 duration |-> ClampDuration(DictGet(arguments, "duration", JNum(8))),
                 aspect_ratio |-> ClampAspectRatio(
                                    DictGet(arguments, "aspect_ratio", JStr("16:9"))),
                 generate_audio |-> DictGet(arguments, "generate_audio", JBool(TRUE)),
                 resolution |-> ClampResolution(
                                    DictGet(arguments, "resolution", JStr("720p")))]
    IN  IF Truthy(negative_prompt)
        THEN JDict(("negative_prompt" :> negative_prompt) @@ base)
        ELSE JDict(base)

\* as _handle_generate_video_start, without the test of the prompt before
\* the task is created
_handle_generate_video_start_unchecked(arguments) ==
    IF ~IsDict(arguments) THEN Done(PyGet(arguments, "prompt", JStr("")))
    ELSE Call("make_v3_request", "POST", "/v3/tasks",
              JDict([type |-> JStr("video"), params |-> VideoParams(arguments)]),
              TimeoutV3Post)

_handle_generate_video_start(arguments) ==
    IF ~IsDict(arguments) THEN Done(PyGet(arguments, "prompt", JStr("")))
    ELSE IF ~Truthy(DictGet(arguments, "prompt", JStr("")))
         THEN Done(Ok(ToolError("Error: prompt is required")))
    ELSE Call("make_v3_request", "POST", "/v3/tasks",
              JDict([type |-> JStr("video"), params |-> VideoParams(arguments)]),
              TimeoutV3Post)

\* the text of the success summary
VideoCreatedText(task_id, p, estimated_cost) ==
    "Video generation task created (Veo 3.1)!\n\nTask ID: " \o PyStr(task_id)
    \o "\nDuration: " \o PyStr(p.duration) \o " seconds"
    \o "\nAspect Ratio: " \o PyStr(p.aspect_ratio)
    \o "\nResolution: " \o PyStr(p.resolution)
    \o "\nAudio: " \o YesNo(p.generate_audio)
    \o "\nEstimated Cost: $" \o PyStr(estimated_cost)
    \o "\n\nUse get_task with this task_id to check status and get the video URL when complete."

\* as _handle_generate_video_finish, with the cost of the remote used only
\* when it is truthy
_handle_generate_video_finish_or(arguments, response) ==
    LET has == PyInError(response)
    IN  IF has.raised THEN has
        ELSE IF has.value
             THEN LET e == PyIndexError(response)
                  IN  IF e.raised THEN e
                      ELSE Ok(ToolError("Error: " \o PyStr(e.value)))
        ELSE IF ~IsDict(response) THEN PyGet(response, "task_id", JStr("unknown"))
        ELSE LET p == VideoParams(arguments).v
                 task_id == DictGet(response, "task_id", JStr("unknown"))
                 estimated_cost ==
                     IF Truthy(DictGet(response, "estimated_cost", None))
                     THEN DictGet(response, "estimated_cost", None)
                     ELSE JDec(TableCost(p.duration, p.generate_audio))
             IN  Ok(ToolResult(VideoCreatedText(task_id, p, estimated_cost)))

_handle_generate_video_finish(arguments, response) ==
    LET has == PyInError(response)
    IN  IF has.raised THEN has
        ELSE IF has.value
             THEN LET e == PyIndexError(response)
                  IN  IF e.raised THEN e
                      ELSE Ok(ToolError("Error: " \o PyStr(e.value)))
        ELSE IF ~IsDict(response) THEN PyGet(response, "task_id", JStr("unknown"))
        ELSE LET p == VideoParams(arguments).v
                 task_id == DictGet(response, "task_id", JStr("unknown"))
                 estimated_cost ==
                     DictGet(response, "estimated_cost",
                             JDec(TableCost(p.duration, p.generate_audio)))
             IN  Ok(ToolResult(VideoCreatedText(task_id, p, estimated_cost)))

EstimateText(duration, generate_audio, cost) ==
    "Video Generation Cost Estimate (Veo 3.1):\n\nDuration: " \o PyStr(duration)
    \o " seconds\nAudio: " \o YesNo(generate_audio)
    \o "\nCost: $" \o DecStr2(cost)
    \o "\n\nPricing with audio:\n- 4 seconds: $2.40\n- 6 seconds: $3.60\n- 8 seconds: $4.80"
    \o "\n\nPricing without audio:\n- 4 seconds: $1.20\n- 6 seconds: $1.80\n- 8 seconds: $2.40"

_handle_estimate_video_cost(arguments) ==
    IF ~IsDict(arguments) THEN PyGet(arguments, "duration", JNum(8))
    ELSE LET duration == ClampDuration(DictGet(arguments, "duration", JNum(8)))
             generate_audio == DictGet(arguments, "generate_audio", JBool(TRUE))
         IN  Ok(ToolResult(EstimateText(duration, generate_audio,
                                        TableCost(duration, generate_audio))))


(***************************************************************************)
(* Task lookup (get_task).  The summary is the list `lines`, joined with   *)
(* newlines; the pictographs that open the media lines are left out.       *)
(***************************************************************************)
\* a or b
PyOr(a, b) == IF Truthy(a) THEN a ELSE b

RECURSIVE Join(_)
\* "\n".join(lines)
Join(lines) ==
    IF lines = <<>> THEN ""
    ELSE IF Len(lines) = 1 THEN lines[1]
    ELSE lines[1] \o "\n" \o Join(Tail(lines))

_handle_get_task_start(arguments) ==
    IF ~IsDict(arguments) THEN Done(PyGet(arguments, "task_id", JStr("")))
    ELSE LET task_id == DictGet(arguments, "task_id", JStr(""))
         IN  IF ~Truthy(task_id)
             THEN Done(Ok(ToolError("Error: task_id is required")))
             ELSE Call("make_v3_get_request", "GET",
                       "/v3/tasks/" \o PyStr(task_id), None, TimeoutV3Get)

\* the media URLs read from the result: raises when items[0] is not a mapping
MediaUrls(result) ==
    LET video_url == PyOr(DictGet(result, "video_url", None),
                          DictGet(result, "output_url", None))
        image_url == PyOr(DictGet(result, "image_url", None),
                          DictGet(result, "output_url", None))
        items == DictGet(result, "items", JList(<<>>))
    IN  IF Truthy(items) /\ IsList(items)
        THEN LET first == items.v[1]
             IN  IF ~IsDict(first) THEN PyGet(first, "audio_url", None)
                 ELSE Ok([video |-> video_url,
                          audio |-> DictGet(first, "audio_url", None),
                          image |-> IF ~Truthy(image_url)
                                    THEN DictGet(first, "image_url", None)
                                    ELSE image_url])
        ELSE Ok([video |-> video_url, audio |-> None, image |-> image_url])

\* as StatusLines, with the video URL ahead of the audio URL
StatusLinesVideoFirst(status, urls, error_message) ==
    IF status = JStr("completed")
    THEN IF Truthy(urls.video) THEN <<"\nVideo URL: " \o PyStr(urls.video)>>
         ELSE IF Truthy(urls.audio) THEN <<"\nAudio URL: " \o PyStr(urls.audio)>>
         ELSE IF Truthy(urls.image) THEN <<"\nImage URL: " \o PyStr(urls.image)>>
         ELSE <<>>
    ELSE IF status = JStr("failed") /\ Truthy(error_message)
         THEN <<"\nError: " \o PyStr(error_message)>>
    ELSE IF status \in {JStr("pending"), JStr("queued"), JStr("executing")}
         THEN <<"\nTask is still " \o PyStr(status) \o ". Check again shortly.">>
    ELSE <<>>

\* the line appended for the status, if any
StatusLines(status, urls, error_message) ==
    IF status = JStr("completed")
    THEN IF Truthy(urls.audio) THEN <<"\nAudio URL: " \o PyStr(urls.audio)>>
         ELSE IF Truthy(urls.video) THEN <<"\nVideo URL: " \o PyStr(urls.video)>>
         ELSE IF Truthy(urls.image) THEN <<"\nImage URL: " \o PyStr(urls.image)>>
         ELSE <<>>
    ELSE IF status = JStr("failed") /\ Truthy(error_message)
         THEN <<"\nError: " \o PyStr(error_message)>>
    ELSE IF status \in {JStr("pending"), JStr("queued"), JStr("executing")}
         THEN <<"\nTask is still " \o PyStr(status) \o ". Check again shortly.">>
    ELSE <<>>

\* the first four lines of the summary
HeadLines(task_id, response) ==
    LET status == DictGet(response, "status", JStr("unknown"))
        task_type == DictGet(response, "type", JStr("unknown"))
        estimated_cost == DictGet(response, "estimated_cost", JStr("N/A"))
    IN  <<"Task: " \o PyStr(task_id),
          "Type: " \o PyStr(task_type),
          "Status: " \o PyStr(status),
          "Estimated Cost: $" \o PyStr(estimated_cost)>>

\* the line of the actual cost, if any
ActualCostLines(response) ==
    LET actual_cost == DictGet(response, "actual_cost", JStr("N/A"))
    IN  IF Truthy(actual_cost) /\ actual_cost # JStr("N/A")
        THEN <<"Actual Cost: $" \o PyStr(actual_cost)>> ELSE <<>>

\* as TaskLines, with the video URL shown for a task that is not completed
TaskLinesUrlAnyStatus(task_id, response, urls) ==
    HeadLines(task_id, response)
    \o ActualCostLines(response)
    \o StatusLines(DictGet(response, "status", JStr("unknown")), urls,
                   DictGet(response, "error_message", None))
    \o (IF DictGet(response, "status", JStr("unknown")) # JStr("completed")
           /\ Truthy(urls.video)
        THEN <<"\nVideo URL: " \o PyStr(urls.video)>> ELSE <<>>)

\* lines of the summary of a task snapshot
TaskLines(task_id, response, urls) ==
    HeadLines(task_id, response)
    \o ActualCostLines(response)
    \o StatusLines(DictGet(response, "status", JStr("unknown")), urls,
                   DictGet(response, "error_message", None))

\* as _handle_get_task_finish, handing a response with the key error back as
\* it came, the way the forwarding handlers do
_handle_get_task_finish_forwarding(arguments, response) ==
    LET has == PyInError(response)
        task_id == DictGet(arguments, "task_id", JStr(""))
    IN  IF has.raised THEN has
        ELSE IF has.value THEN Ok(response)
        ELSE IF ~IsDict(response) THEN PyGet(response, "status", JStr("unknown"))
        ELSE LET result == PyOr(DictGet(response, "result", EmptyDict), EmptyDict)
             IN  IF ~IsDict(result) THEN PyGet(result, "video_url", None)
                 ELSE LET urls == MediaUrls(result)
                      IN  IF urls.raised THEN urls
                          ELSE Ok(ToolResult(Join(TaskLines(task_id, response,
                                                            urls.value))))

_handle_get_task_finish(arguments, response) ==
    LET has == PyInError(response)
        task_id == DictGet(arguments, "task_id", JStr(""))
    IN  IF has.raised THEN has
        ELSE IF has.value
             THEN LET e == PyIndexError(response)
                  IN  IF e.raised THEN e
                      ELSE Ok(ToolError("Error: " \o PyStr(e.value)))
        ELSE IF ~IsDict(response) THEN PyGet(response, "status", JStr("unknown"))
        ELSE LET result == PyOr(DictGet(response, "result", EmptyDict), EmptyDict)
             IN  IF ~IsDict(result) THEN PyGet(result, "video_url", None)
                 ELSE LET urls == MediaUrls(result)
                      IN  IF urls.raised THEN urls
                          ELSE Ok(ToolResult(Join(TaskLines(task_id, response,
                                                            urls.value))))

(***************************************************************************)
(* tools/call                                                              *)
(***************************************************************************)
\* the tools with a local handler
SpecialTools == {"generate_video", "estimate_video_cost", "get_task"}

\* as handle_tools_call_start, forwarding the name of the tool without its
\* arguments
handle_tools_call_start_name_only(params) ==
    IF ~IsDict(params) THEN Done(PyGet(params, "name", JStr("")))
    ELSE LET tool_name == DictGet(params, "name", JStr(""))
             arguments == DictGet(params, "arguments", EmptyDict)
         IN  IF tool_name = JStr("generate_video")
                 THEN _handle_generate_video_start(arguments)
             ELSE IF tool_name = JStr("estimate_video_cost")
                 THEN Done(_handle_estimate_video_cost(arguments))
             ELSE IF tool_name = JStr("get_task")
                 THEN _handle_get_task_start(arguments)
             ELSE Call("make_request", "POST", "/tools/call",
                       JDict([name |-> tool_name, arguments |-> EmptyDict]),
                       TimeoutMcp)

handle_tools_call_start(params) ==
    IF ~IsDict(params) THEN Done(PyGet(params, "name", JStr("")))
    ELSE LET tool_name == DictGet(params, "name", JStr(""))
             arguments == DictGet(params, "arguments", EmptyDict)
         IN  IF tool_name = JStr("generate_video")
                 THEN _handle_generate_video_start(arguments)
             ELSE IF tool_name = JStr("estimate_video_cost")
                 THEN Done(_handle_estimate_video_cost(arguments))
             ELSE IF tool_name = JStr("get_task")
                 THEN _handle_get_task_start(arguments)
             ELSE Call("make_request", "POST", "/tools/call",
                       JDict([name |-> tool_name, arguments |-> arguments]),
                       TimeoutMcp)

\* the rest of handle_tools_call, once its transport call has returned
handle_tools_call_finish(params, response) ==
    LET tool_name == DictGet(params, "name", JStr(""))
        arguments == DictGet(params, "arguments", EmptyDict)
    IN  IF tool_name = JStr("generate_video")
            THEN _handle_generate_video_finish(arguments, response)
        ELSE IF tool_name = JStr("get_task")
            THEN _handle_get_task_finish(arguments, response)
        ELSE Ok(response)


(***************************************************************************)
(* JSON-RPC protocol                                                       *)
(***************************************************************************)
create_response(id, result) ==
    JDict([jsonrpc |-> JStr("2.0"), id |-> id, result |-> result])

create_error(id, code, message) ==
    JDict([jsonrpc |-> JStr("2.0"), id |-> id,
           error |-> JDict([code |-> JNum(code), message |-> JStr(message)])])

ParseErrorCode == -32700
MethodNotFoundCode == -32601
HandlerErrorCode == -32000

\* method routing table: method name -> handler
METHOD_HANDLERS ==
    [initialize |-> "handle_initialize"]
    @@ ("tools/list" :> "handle_tools_list")
    @@ ("tools/call" :> "handle_tools_call")
    @@ ("resources/list" :> "handle_resources_list")
    @@ ("resources/read" :> "handle_resources_read")

\* only str, int, bool, None and float values can be looked up in a dict
Hashable(x) == x.t \notin {"list", "dict"}

\* METHOD_HANDLERS.get(method) found a handler
HasHandler(method) == IsStr(method) /\ method.v \in DOMAIN METHOD_HANDLERS

\* handler(params), up to the handler's transport call
HandlerStart(handler, params) ==
    CASE handler = "handle_initialize"     -> handle_initialize_start(params)
      [] handler = "handle_tools_list"     -> handle_tools_list_start(params)
      [] handler = "handle_tools_call"     -> handle_tools_call_start(params)
      [] handler = "handle_resources_list" -> handle_resources_list_start(params)
      [] handler = "handle_resources_read" -> handle_resources_read_start(params)

\* handler(params), from the return of its transport call
HandlerFinish(handler, params, response) ==
    IF handler = "handle_tools_call" THEN handle_tools_call_finish(params, response)
    ELSE Ok(response)

\* as CheckReturned, without the isinstance test: any `error` key makes an
\* error response
CheckReturnedAnyError(request_id, result) ==
    LET has == PyInError(result)
    IN  IF has.raised THEN create_error(request_id, HandlerErrorCode, has.msg)
        ELSE IF ~has.value THEN create_response(request_id, result)
        ELSE LET e == PyIndexError(result)
             IN  IF e.raised THEN create_error(request_id, HandlerErrorCode, e.msg)
                 ELSE create_error(request_id, HandlerErrorCode, PyStr(e.value))

\* process_request once the handler has returned `result`: the check for an
\* error in the result, inside the try block
CheckReturned(request_id, result) ==
    LET has == PyInError(result)
    IN  IF has.raised THEN create_error(request_id, HandlerErrorCode, has.msg)
        ELSE IF ~has.value THEN create_response(request_id, result)
        ELSE LET e == PyIndexError(result)
             IN  IF e.raised THEN create_error(request_id, HandlerErrorCode, e.msg)
                 ELSE IF IsStr(e.value)
                      THEN create_error(request_id, HandlerErrorCode, e.value.v)
                 ELSE create_response(request_id, result)

\* as CheckResult, with a fixed message in place of the exception's text
CheckResultFixedMessage(request_id, res) ==
    IF res.raised THEN create_error(request_id, HandlerErrorCode, "Internal error")
    ELSE CheckReturned(request_id, res.value)

\* process_request from the handler's outcome on: the try block after the
\* handler, and the except branch
CheckResult(request_id, res) ==
    IF res.raised THEN create_error(request_id, HandlerErrorCode, res.msg)
    ELSE CheckReturned(request_id, res.value)

\* what a part of process_request ends with
Crash(exc, msg) == [k |-> "crash", exc |-> exc, msg |-> msg]
Return(response) == [k |-> "return", response |-> response]

\* request_id is None
IsNotification(request_id) == request_id = None

\* as Notification, with an error response for a method that is not a
\* notifications/... name
NotificationAnswersUnknown(request_id, method) ==
    IF method = JStr("notifications/initialized") THEN Return(None)
    ELSE IF ~IsStr(method)
         THEN Crash("AttributeError", "'" \o PyTypeName(method)
                                      \o "' object has no attribute 'startswith'")
    ELSE IF method = JStr("notifications/cancelled") THEN Return(None)
    ELSE Return(create_error(request_id, MethodNotFoundCode,
                             "Method not found: " \o PyStr(method)))

\* the notification branch: method.startswith needs a string
Notification(request_id, method) ==
    IF method = JStr("notifications/initialized") THEN Return(None)
    ELSE IF ~IsStr(method)
         THEN Crash("AttributeError", "'" \o PyTypeName(method)
                                      \o "' object has no attribute 'startswith'")
    ELSE Return(None)

\* request.get("params") or {}
RequestParams(request) == PyOr(DictGet(request, "params", None), EmptyDict)

\* process_request up to the handler's transport call.  What it ends with:
\* a crash (an exception outside the try block), a returned response, the
\* handler's outcome (still to be checked), or the handler's transport call
process_request_start(request) ==
    IF ~IsDict(request)
    THEN Crash("AttributeError",
               "'" \o PyTypeName(request) \o "' object has no attribute 'get'")
    ELSE LET request_id == DictGet(request, "id", None)
             method == DictGet(request, "method", JStr(""))
             params == RequestParams(request)
         IN  IF IsNotification(request_id) THEN Notification(request_id, method)
             ELSE IF ~Hashable(method)
                  THEN Crash("TypeError",
                             "unhashable type: '" \o PyTypeName(method) \o "'")
             ELSE IF ~HasHandler(method)
                  THEN Return(create_error(request_id, MethodNotFoundCode,
                                           "Method not found: " \o PyStr(method)))
             ELSE [k |-> "handler", handler |-> METHOD_HANDLERS[method.v],
                   start |-> HandlerStart(METHOD_HANDLERS[method.v], params)]


(***************************************************************************)
(* Inputs of the session: the lines a client can write on stdin and the    *)
(* outcomes the remote API can produce                                     *)
(***************************************************************************)
\* marks a key that the mapping does not have
Absent == [t |-> "absent"]

\* the mapping with the keys of f whose value is not Absent
MkDict(f) == JDict([k \in {j \in DOMAIN f : f[j] # Absent} |-> f[k]])

InputIds == {Absent, JNull, JNum(0), JStr(""), JNum(7)}

InputMethods ==
    {Absent, JStr("initialize"), JStr("tools/list"), JStr("resources/list"),
     JStr("resources/read"), JStr("foo/bar"), JStr("notifications/initialized"),
     JStr("notifications/cancelled"), JNum(5), JList(<<>>)}

\* params of the methods whose handler reads them
ReadParams ==
    {JStr("x"), JList(<<>>),
     JDict([protocolVersion |-> JStr("2024-11-05"), uri |-> JStr("vap://presets")])}

\* arguments of the tools, by tool
VideoArguments ==
    {MkDict([prompt |-> p, duration |-> d, generate_audio |-> a]) :
        p \in {Absent, JStr(""), JStr("a cat")},
        d \in {Absent, JNum(5)},
        a \in {Absent, JBool(FALSE)}}

TaskArguments ==
    {MkDict([task_id |-> t, prompt |-> p]) :
        t \in {Absent, JStr(""), JStr("t1")}, p \in {Absent, JStr("a cat")}}

EstimateArguments ==
    {MkDict([duration |-> d, generate_audio |-> a]) :
        d \in {Absent, JNum(6)}, a \in {Absent, JBool(FALSE)}}

NonMappings == {JNull, JStr("x")}

ToolParams ==
    {Absent, JStr("x"), MkDict([name |-> Absent, arguments |-> Absent])}
    \cup {MkDict([name |-> JStr("generate_video"), arguments |-> a]) :
            a \in VideoArguments \cup NonMappings}
    \cup {MkDict([name |-> JStr("get_task"), arguments |-> a]) :
            a \in TaskArguments \cup NonMappings}
    \cup {MkDict([name |-> JStr("estimate_video_cost"), arguments |-> a]) :
            a \in EstimateArguments \cup NonMappings}
    \cup {MkDict([name |-> JStr("generate_image"), arguments |-> a]) :
            a \in {Absent, JDict([prompt |-> JStr("a cat")])}}

\* the JSON-RPC envelopes
Envelopes ==
    {MkDict([id |-> i, method |-> m, params |-> Absent]) :
        i \in InputIds, m \in InputMethods}
    \cup {MkDict([id |-> i, method |-> m, params |-> p]) :
            i \in {Absent, JNum(7)},
            m \in {JStr("initialize"), JStr("tools/list"), JStr("resources/read")},
            p \in ReadParams}
    \cup {MkDict([id |-> i, method |-> JStr("tools/call"), params |-> p]) :
            i \in InputIds, p \in ToolParams}

\* valid JSON texts that are not objects
NonObjects == {JList(<<JNum(1)>>), JNum(5), JNull}

\* a line of stdin: blank, not JSON, or the text of a JSON value
Lines ==
    {[kind |-> "blank", text |-> t] : t \in {"", "  ", "\t \r"}}
    \cup {[kind |-> "malformed", text |-> "{oops"]}
    \cup {[kind |-> "json", value |-> v] : v \in Envelopes \cup NonObjects}

\* as Strip, taking off the spaces only
StripSpaces(t) ==
    CASE t \in {"", "  "} -> ""
      [] OTHER -> t

\* t.strip() for the texts of the model (the line feed is left out of them)
Strip(t) ==
    CASE t \in {"", "  ", "\t \r"} -> ""
      [] OTHER -> t

\* line.strip() is empty
Blank(l) == l.kind # "json" /\ Strip(l.text) = ""

\* json.loads(line)
JsonLoads(l) ==
    IF l.kind = "json" THEN Ok(l.value)
    ELSE Raise("JSONDecodeError", "Expecting value")

\* bodies of 2xx answers
Bodies ==
    {JDict([tools |-> JList(<<>>)]),
     JDict([error |-> JStr("boom")]),
     JDict([error |-> JDict([code |-> JNum(1)])]),
     JList(<<JStr("error")>>), JList(<<>>),
     JStr("upstream error"), JStr("pong"), JNum(5), JNull,
     JDict([task_id |-> JStr("t1"), estimated_cost |-> JDec(360)]),
     JDict([task_id |-> JStr("t1")]),
     JDict([status |-> JStr("completed"), type |-> JStr("music"),
            result |-> JDict([items |-> JList(<<JDict([audio_url |-> JStr("u1")])>>)])]),
     JDict([status |-> JStr("pending"), type |-> JStr("video"),
            estimated_cost |-> JDec(240)]),
     JDict([status |-> JStr("failed"), error_message |-> JStr("no gpu")])}

Outcomes ==
    {[kind |-> "ok", body |-> b] : b \in Bodies}
    \cup {[kind |-> "exception", text |-> "timed out"]}
    \cup {[kind |-> "status", text |-> "502 Bad Gateway", json |-> FALSE,
           body |-> JNull, raw |-> "Bad Gateway"],
          [kind |-> "status", text |-> "400 Bad Request", json |-> TRUE,
           body |-> JDict([detail |-> JDict([message |-> JStr("bad prompt")])]),
           raw |-> ""],
          [kind |-> "status", text |-> "402 Payment Required", json |-> TRUE,
           body |-> JDict([detail |-> JStr("no credit")]), raw |-> ""]}

(***************************************************************************)
(* State of the session loop (main)                                        *)
(***************************************************************************)
VARIABLES
    pc,        \* "idle" between lines, "processing" a parsed line, "http" in a
               \* transport call, "crashed" by an uncaught exception, "closed"
    nread,     \* number of lines read from stdin
    due,       \* history: how many of them were requests or malformed JSON
    line,      \* the line read last
    request,   \* json.loads(line)
    handlers,  \* handlers invoked for the line
    calls,     \* transport calls made for the line
    hres,      \* what the handler ended with (returned value or exception)
    response,  \* what process_request returned, or the parse error written
    emitted,   \* number of lines written to stdout for the line
    stdout     \* lines written, each as (number of its input line, id)

\* one call of the tool dispatcher (handle_tools_call), taken on its own
VARIABLES
    tool_pc,       \* "off", or "start", "called" (in its transport call), "done"
    tool_params,   \* the params of the tools/call
    tool_calls,    \* transport calls made by the handler
    tool_outcome,  \* what the remote did with the call
    tool_result    \* what the handler ended with (returned value or exception)

\* one SDK client (AsyncVAPEClient) and the calls of _request made on it
VARIABLES
    max_retries,   \* self.max_retries
    _client,       \* self._client: NoClient, or the number of the handle
    created,       \* number of connection handles created so far
    rq,            \* per caller, the state of its _request call: pc ("idle",
                   \* "awaiting" the answer of an attempt, "done"), the locals
                   \* client, attempt and last_error, the number of attempts
                   \* sent, the outcome of the attempt that finished last, the
                   \* kinds of the attempts that finished (hist), and how the
                   \* call ended
    inflight,      \* the HTTP attempts in flight: caller, attempt, handle
    closed,        \* the handles on which aclose() has been called
    close_pc       \* close(): "idle", or "closing" (in `await aclose()`)

\* one call of a transport function of the proxy, taken on its own
VARIABLES
    tr_pc,         \* "off", or "start", "returned"
    tr_fn,         \* the transport function called
    tr_outcome,    \* what the HTTP exchange did
    tr_returned    \* what the function gave its caller (value or exception)

\* one webhook delivery: generate_webhook_signature, then
\* verify_webhook_signature at the receiver
VARIABLES
    wh_pc,         \* "off", or "start", "signed", "verified"
    wh_in,         \* the arguments of the two calls and the clock readings
    wh_signed,     \* the (signature, timestamp) of generate_webhook_signature
    wh_valid       \* what verify_webhook_signature returned

proxyVars == <<pc, nread, due, line, request, handlers, calls, hres, response, emitted, stdout>>
toolVars == <<tool_pc, tool_params, tool_calls, tool_outcome, tool_result>>
sdkVars == <<max_retries, _client, created, rq, inflight, closed, close_pc>>
transportVars == <<tr_pc, tr_fn, tr_outcome, tr_returned>>
hookVars == <<wh_pc, wh_in, wh_signed, wh_valid>>
vars == <<proxyVars, toolVars, sdkVars, transportVars, hookVars>>

NoLine == [kind |-> "none"]
NoRequest == [t |-> "unset"]
NoResult == [k |-> "none"]
NoOutcome == [kind |-> "none"]
NoClient == 0

\* the callers that use the SDK client concurrently
Callers == {1, 2}

\* max_retries: int = 3
DefaultMaxRetries == 3

\* a caller that has not called _request
NotCalled ==
    [pc |-> "idle", client |-> NoClient, attempt |-> 0, sent |-> 0,
     outcome |-> NoOutcome, hist |-> <<>>, last_error |-> None, end |-> NoResult]

\* the proxy before its first line
ProxyInit ==
    /\ pc = "idle"
    /\ nread = 0
    /\ due = 0
    /\ line = NoLine
    /\ request = NoRequest
    /\ handlers = <<>>
    /\ calls = <<>>
    /\ hres = NoResult
    /\ response = None
    /\ emitted = 0
    /\ stdout = <<>>

\* no tool call is taken on its own
ToolOff ==
    /\ tool_pc = "off"
    /\ tool_params = EmptyDict
    /\ tool_calls = <<>>
    /\ tool_outcome = NoOutcome
    /\ tool_result = NoResult

\* a client with the default configuration, not used
SdkOff ==
    /\ max_retries = DefaultMaxRetries
    /\ _client = NoClient
    /\ created = 0
    /\ rq = [c \in Callers |-> NotCalled]
    /\ inflight = {}
    /\ closed = {}
    /\ close_pc = "idle"

\* no transport function is called on its own
TransportOff ==
    /\ tr_pc = "off"
    /\ tr_fn = "none"
    /\ tr_outcome = NoOutcome
    /\ tr_returned = NoResult

\* no webhook is delivered
HookOff ==
    /\ wh_pc = "off"
    /\ wh_in = <<>>
    /\ wh_signed = <<>>
    /\ wh_valid = NoResult

\* as WriteLine, with the new line put before the lines written earlier
WriteLineInFront(out, n, resp) == <<[n |-> n, id |-> resp.v.id]>> \o out

\* print(json.dumps(response), flush=True) for input line n
WriteLine(out, n, resp) == Append(out, [n |-> n, id |-> resp.v.id])

Init == ProxyInit /\ ToolOff /\ SdkOff /\ TransportOff /\ HookOff

\* as ParseErrorResponse, with the code of an invalid request
ParseErrorResponseInvalidRequest == create_error(None, -32600, "Invalid Request")

\* the response of main's except branch
ParseErrorResponse == create_error(None, ParseErrorCode, "Parse error")

\* main: the response, if there is one, is written and the loop goes on
Respond(resp) ==
    /\ response' = resp
    /\ pc' = "idle"
    /\ IF resp # None
       THEN /\ stdout' = WriteLine(stdout, nread, resp)
            /\ emitted' = emitted + 1
       ELSE UNCHANGED <<stdout, emitted>>

\* the line is malformed JSON, or a message with the key `id`
DueAnswer(l) ==
    \/ l.kind = "malformed"
    \/ l.kind = "json" /\ IsDict(l.value) /\ "id" \in DOMAIN l.value.v

\* one iteration of `for line in sys.stdin` up to process_request
ReadLine(l) ==
    /\ pc = "idle"
    /\ nread < MaxLines
    /\ nread' = nread + 1
    /\ due' = due + (IF DueAnswer(l) THEN 1 ELSE 0)
    /\ line' = l
    /\ handlers' = <<>>
    /\ calls' = <<>>
    /\ hres' = NoResult
    /\ IF Blank(l)
       THEN /\ pc' = "idle"
            /\ request' = NoRequest
            /\ response' = None
            /\ emitted' = 0
            /\ UNCHANGED stdout
       ELSE IF JsonLoads(l).raised
       THEN /\ pc' = "idle"
            /\ request' = NoRequest
            /\ response' = ParseErrorResponse
            /\ stdout' = WriteLine(stdout, nread', ParseErrorResponse)
            /\ emitted' = 1
       ELSE /\ pc' = "processing"
            /\ request' = JsonLoads(l).value
            /\ response' = None
            /\ emitted' = 0
            /\ UNCHANGED stdout
    /\ UNCHANGED <<toolVars, sdkVars, transportVars, hookVars>>

\* process_request(request) up to the handler's transport call, and the
\* rest of the iteration when the handler makes no call
ProcessRequest ==
    /\ pc = "processing"
    /\ LET r == process_request_start(request)
       IN  CASE r.k = "crash" ->
                   /\ pc' = "crashed"
                   /\ UNCHANGED <<handlers, calls, hres, response, emitted, stdout>>
             [] r.k = "return" ->
                   /\ Respond(r.response)
                   /\ UNCHANGED <<handlers, calls, hres>>
             [] r.k = "handler" /\ r.start.k = "done" ->
                   /\ handlers' = Append(handlers, r.handler)
                   /\ hres' = r.start.res
                   /\ Respond(CheckResult(DictGet(request, "id", None), r.start.res))
                   /\ UNCHANGED calls
             [] r.k = "handler" /\ r.start.k = "call" ->
                   /\ handlers' = Append(handlers, r.handler)
                   /\ calls' = Append(calls, r.start)
                   /\ pc' = "http"
                   /\ UNCHANGED <<hres, response, emitted, stdout>>
    /\ UNCHANGED <<nread, due, line, request>>
    /\ UNCHANGED <<toolVars, sdkVars, transportVars, hookVars>>

\* as HttpReply, calling once more when the transport call has failed
HttpReplyRetrying(outcome) ==
    /\ pc = "http"
    /\ LET call == calls[Len(calls)]
           res == HandlerFinish(handlers[Len(handlers)], RequestParams(request),
                                Transport(call.fn, outcome))
       IN  IF outcome.kind # "ok" /\ Len(calls) < 2
           THEN /\ calls' = Append(calls, call)
                /\ UNCHANGED <<pc, hres, response, emitted, stdout>>
           ELSE /\ hres' = res
                /\ Respond(CheckResult(DictGet(request, "id", None), res))
                /\ UNCHANGED calls
    /\ UNCHANGED <<nread, due, line, request, handlers>>
    /\ UNCHANGED <<toolVars, sdkVars, transportVars, hookVars>>

\* the transport call returns; the handler and process_request finish
HttpReply(outcome) ==
    /\ pc = "http"
    /\ LET call == calls[Len(calls)]
           res == HandlerFinish(handlers[Len(handlers)], RequestParams(request),
                                Transport(call.fn, outcome))
       IN  /\ hres' = res
           /\ Respond(CheckResult(DictGet(request, "id", None), res))
    /\ UNCHANGED <<nread, due, line, request, handlers, calls>>
    /\ UNCHANGED <<toolVars, sdkVars, transportVars, hookVars>>

\* stdin is closed: the for loop ends
Eof ==
    /\ pc = "idle"
    /\ pc' = "closed"
    /\ UNCHANGED <<nread, due, line, request, handlers, calls, hres, response,
                   emitted, stdout>>
    /\ UNCHANGED <<toolVars, sdkVars, transportVars, hookVars>>

Next ==
    \/ \E l \in Lines : ReadLine(l)
    \/ ProcessRequest
    \/ \E o \in Outcomes : HttpReply(o)
    \/ Eof

Spec == Init /\ [][Next]_vars


(***************************************************************************)
(* Vocabulary of the properties                                            *)
(***************************************************************************)
\* the line read last is the text of a JSON object
IsEnvelope == line.kind = "json" /\ IsDict(line.value)

\* ... that has the key `id`
HasIdKey == IsEnvelope /\ "id" \in DOMAIN line.value.v

\* the line read last has been dealt with and the loop waits for the next
LineDone == pc = "idle" /\ nread > 0

LineId == DictGet(line.value, "id", None)
LineMethod == DictGet(line.value, "method", JStr(""))
LineParams == RequestParams(line.value)

\* the last line of stdout is the answer to the line read last, with this id
AnsweredWith(id) ==
    /\ emitted = 1
    /\ Len(stdout) > 0
    /\ stdout[Len(stdout)] = [n |-> nread, id |-> id]
    /\ \A i \in 1..(Len(stdout) - 1) : stdout[i].n # nread

\* nothing was written to stdout for the line read last
NothingWritten ==
    /\ emitted = 0
    /\ \A i \in 1..Len(stdout) : stdout[i].n # nread

IsErrorResponse(resp, code, message) ==
    /\ resp # None
    /\ DOMAIN resp.v = {"jsonrpc", "id", "error"}
    /\ resp.v.error = JDict([code |-> JNum(code), message |-> JStr(message)])

IsSuccessResponse(resp, result) ==
    /\ resp # None
    /\ DOMAIN resp.v = {"jsonrpc", "id", "result"}
    /\ resp.v.result = result

(***************************************************************************)
(* C1: a line that parses to a JSON-RPC message without the key `id`       *)
(* never causes a line of output, whatever its method.                     *)
(***************************************************************************)
C1_NotificationNoOutput ==
    (IsEnvelope /\ ~HasIdKey) => (NothingWritten /\ response = None)

\* a notification naming a known method has been processed
C1_Witness ==
    /\ LineDone /\ IsEnvelope /\ ~HasIdKey
    /\ request = line.value
    /\ LineMethod = JStr("tools/call")
    /\ Len(stdout) = 1 /\ stdout[1].n = 1 /\ nread = 2

(***************************************************************************)
(* C2: a line whose JSON object has the key `id`, whatever its value       *)
(* (null, 0, "" included), gets exactly one response line, with that id.   *)
(***************************************************************************)
C2_RequestAnsweredOnce ==
    (LineDone /\ HasIdKey) =>
        /\ response # None
        /\ response.v.id = line.value.v.id
        /\ AnsweredWith(line.value.v.id)

(***************************************************************************)
(* C3: a non-empty line that is not JSON gets exactly one error response   *)
(* with id null, code -32700 and message "Parse error"; no handler runs    *)
(* and the loop is ready for the next line.                                *)
(***************************************************************************)
C3_ParseError ==
    (line.kind = "malformed") =>
        /\ pc \in {"idle", "closed"}
        /\ IsErrorResponse(response, -32700, "Parse error")
        /\ response.v.id = JNull
        /\ AnsweredWith(JNull)
        /\ handlers = <<>> /\ calls = <<>> /\ request = NoRequest

\* two malformed lines in a row, each answered
C3_Witness ==
    /\ line.kind = "malformed" /\ pc = "idle" /\ nread = 2
    /\ stdout = <<[n |-> 1, id |-> JNull], [n |-> 2, id |-> JNull]>>

(***************************************************************************)
(* C4: no single line makes the loop exit; it ends only when stdin is      *)
(* closed.                                                                 *)
(***************************************************************************)
C4_LoopSurvivesEveryLine == pc # "crashed"

(***************************************************************************)
(* C5: a request (key `id` present) whose method is not in the routing     *)
(* table is answered with error -32601 "Method not found: {method}", and   *)
(* neither a handler nor a transport call is invoked.                      *)
(***************************************************************************)
C5_MethodNotFound ==
    (pc \in {"idle", "crashed"} /\ nread > 0 /\ HasIdKey /\ ~HasHandler(LineMethod)) =>
        /\ IsErrorResponse(response, -32601, "Method not found: " \o PyStr(LineMethod))
        /\ AnsweredWith(line.value.v.id)
        /\ handlers = <<>> /\ calls = <<>>


(***************************************************************************)
(* C6: when the handler of a request raises, or the check of its result    *)
(* inside the same try block raises (a remote answer that is not a         *)
(* mapping), the response is error -32000 with the exception's text and    *)
(* the request's id, and the loop goes on.                                 *)
(***************************************************************************)
\* the exception raised inside process_request's try block, if any
RaisedInTry ==
    IF hres.raised THEN hres
    ELSE IF PyInError(hres.value).raised THEN PyInError(hres.value)
    ELSE IF PyInError(hres.value).value /\ PyIndexError(hres.value).raised
         THEN PyIndexError(hres.value)
    ELSE Ok(None)

C6_HandlerException ==
    (hres # NoResult /\ RaisedInTry.raised) =>
        /\ pc \in {"idle", "closed"}
        /\ IsErrorResponse(response, -32000, RaisedInTry.msg)
        /\ response.v.id = LineId
        /\ AnsweredWith(LineId)

\* the handler raised after its transport call returned, on the second line
C6_Witness ==
    /\ LineDone /\ nread = 2
    /\ hres # NoResult /\ hres.raised
    /\ handlers = <<"handle_tools_call">> /\ Len(calls) = 1
    /\ IsErrorResponse(response, -32000, hres.msg)

(***************************************************************************)
(* C7 (as claimed): when the handler returns normally, the response is     *)
(* error -32000 with message = the value of `error` if and only if the     *)
(* payload has a key `error` whose value is a string; otherwise the        *)
(* payload is forwarded unchanged as `result`.                             *)
(***************************************************************************)
HasStringError(payload) ==
    /\ IsDict(payload)
    /\ "error" \in DOMAIN payload.v
    /\ IsStr(payload.v.error)

C7_ErrorIffStringErrorKey ==
    (LineDone /\ hres # NoResult /\ ~hres.raised) =>
        IF HasStringError(hres.value)
        THEN IsErrorResponse(response, -32000, hres.value.v.error.v)
        ELSE IsSuccessResponse(response, hres.value)

(***************************************************************************)
(* C7 (amended): when the handler returns a mapping, the response is       *)
(* error -32000 with message = the value of `error` if and only if the     *)
(* mapping has a key `error` whose value is a string, and otherwise the    *)
(* mapping is forwarded unchanged as `result`.  A payload that is not a    *)
(* mapping is forwarded unchanged when the test `"error" in payload` is    *)
(* false (a list without the element "error", a string without that        *)
(* substring); for every other payload the response is error -32000 with   *)
(* the text of the TypeError raised by the test.  No response carries      *)
(* both `result` and `error`.                                              *)
(***************************************************************************)
C7_ErrorIffStringErrorKeyOfMapping ==
    /\ (LineDone /\ hres # NoResult /\ ~hres.raised) =>
          LET payload == hres.value
          IN  IF IsDict(payload)
              THEN IF HasStringError(payload)
                   THEN IsErrorResponse(response, -32000, payload.v.error.v)
                   ELSE IsSuccessResponse(response, payload)
              ELSE IF RaisedInTry.raised
                   THEN /\ payload.t \notin {"list", "str"}
                           \/ PyInError(payload).value
                        /\ IsErrorResponse(response, -32000, RaisedInTry.msg)
                   ELSE /\ payload.t \in {"list", "str"}
                        /\ ~PyInError(payload).value
                        /\ IsSuccessResponse(response, payload)
    /\ (response # None) => ~({"result", "error"} \subseteq DOMAIN response.v)

\* a mapping whose `error` is not a string was forwarded as a result
C7_Witness ==
    /\ LineDone /\ hres # NoResult /\ ~hres.raised
    /\ IsDict(hres.value) /\ "error" \in DOMAIN hres.value.v
    /\ ~IsStr(hres.value.v.error)
    /\ IsSuccessResponse(response, hres.value)

(***************************************************************************)
(* C8: one line at a time.  A line is read only in Idle, after the         *)
(* response owed to the line before it has been written; the lines of      *)
(* stdout are in the order of the input lines they answer, at most one     *)
(* per input line, and none for a line not yet processed.                  *)
(***************************************************************************)
InOrder ==
    /\ \A i, j \in 1..Len(stdout) : i < j => stdout[i].n < stdout[j].n
    /\ \A i \in 1..Len(stdout) : stdout[i].n <= nread
    /\ pc \in {"processing", "http"} => \A i \in 1..Len(stdout) : stdout[i].n < nread
    /\ Len(calls) <= 1

C8_OneLineAtATime ==
    /\ []InOrder
    /\ [][nread' # nread =>
            /\ pc = "idle"
            /\ nread' = nread + 1
            /\ response # None => (Len(stdout) > 0 /\ stdout[Len(stdout)].n = nread)]_vars

\* two requests answered in the order read, the second after a transport call
C8_Witness ==
    /\ LineDone /\ nread = 2 /\ Len(calls) = 1
    /\ stdout = <<[n |-> 1, id |-> JNum(7)], [n |-> 2, id |-> JNum(0)]>>

(***************************************************************************)
(* C9: a tools/call request for generate_video without a prompt (missing   *)
(* or empty), or for get_task without a task_id, is answered with a        *)
(* success response whose result has isError true and a text naming the    *)
(* missing argument.                                                       *)
(***************************************************************************)
\* the line read last is a tools/call of `tool`, with arguments that are a
\* mapping (or left out) in which `key` is missing or empty
CallWithout(tool, key) ==
    /\ IsEnvelope
    /\ LineMethod = JStr("tools/call")
    /\ IsDict(LineParams)
    /\ DictGet(LineParams, "name", JStr("")) = JStr(tool)
    /\ IsDict(DictGet(LineParams, "arguments", EmptyDict))
    /\ ~Truthy(DictGet(DictGet(LineParams, "arguments", EmptyDict), key, JStr("")))

C9_ValidationErrorIsToolResult ==
    /\ (LineDone /\ HasIdKey /\ CallWithout("generate_video", "prompt")) =>
          /\ IsSuccessResponse(response, ToolError("Error: prompt is required"))
          /\ AnsweredWith(line.value.v.id)
    /\ (LineDone /\ HasIdKey /\ CallWithout("get_task", "task_id")) =>
          /\ IsSuccessResponse(response, ToolError("Error: task_id is required"))
          /\ AnsweredWith(line.value.v.id)

(***************************************************************************)
(* C10: generate_video without a prompt and get_task without a task_id     *)
(* make no transport call, whatever the other arguments are.               *)
(***************************************************************************)
C10_NoCallOnValidationFailure ==
    (CallWithout("generate_video", "prompt") \/ CallWithout("get_task", "task_id"))
        => calls = <<>>

\* generate_video with an empty prompt and other arguments was refused by
\* the handler itself
C10_Witness ==
    /\ LineDone /\ HasIdKey /\ CallWithout("generate_video", "prompt")
    /\ DOMAIN DictGet(LineParams, "arguments", EmptyDict).v
          = {"prompt", "duration", "generate_audio"}
    /\ handlers = <<"handle_tools_call">>
    /\ hres = Ok(ToolError("Error: prompt is required"))
    /\ calls = <<>>


(***************************************************************************)
(* The tool dispatcher on its own: one call of handle_tools_call, with     *)
(* the params drawn from ToolCallInputs and the remote's answer from       *)
(* RemoteOutcomes.                                                         *)
(***************************************************************************)
VideoCallInputs ==
    {MkDict([name |-> JStr("generate_video"),
             arguments |-> MkDict([prompt |-> JStr("a cat"), duration |-> d,
                                   aspect_ratio |-> a, resolution |-> r,
                                   generate_audio |-> g, negative_prompt |-> n])]) :
        d \in {Absent, JNum(4), JNum(5), JNum(6), JNum(8), JNum(100), JStr("4")},
        a \in {Absent, JStr("16:9"), JStr("9:16"), JStr("4:3")},
        r \in {Absent, JStr("720p"), JStr("1080p"), JStr("4k")},
        g \in {Absent, JBool(TRUE), JBool(FALSE)},
        n \in {Absent, JStr(""), JStr("blurry")}}

EstimateCallInputs ==
    {MkDict([name |-> JStr("estimate_video_cost"),
             arguments |-> MkDict([duration |-> d, generate_audio |-> g])]) :
        d \in {Absent, JNum(4), JNum(5), JNum(6), JNum(8), JNum(100), JStr("4")},
        g \in {Absent, JBool(TRUE), JBool(FALSE)}}
    \cup {MkDict([name |-> JStr("estimate_video_cost"), arguments |-> Absent])}

TaskCallInputs ==
    {MkDict([name |-> JStr("get_task"), arguments |-> MkDict([task_id |-> t])]) :
        t \in {Absent, JStr(""), JStr("t1")}}

\* the tools without a local handler, a name that is no tool, and no name
OtherToolNames ==
    {JStr("generate_image"), JStr("generate_music"), JStr("execute_preset"),
     JStr("list_tasks"), JStr("check_balance"), JStr("estimate_cost"),
     JStr("estimate_music_cost"), JStr("no_such_tool"), Absent}

OtherCallInputs ==
    {MkDict([name |-> n, arguments |-> a]) :
        n \in OtherToolNames,
        a \in {Absent, EmptyDict, JDict([prompt |-> JStr("a cat")]), JStr("x")}}

ToolCallInputs ==
    VideoCallInputs \cup EstimateCallInputs \cup TaskCallInputs \cup OtherCallInputs

\* the result of a task snapshot
TaskResults ==
    {Absent, JNull}
    \cup {MkDict([video_url |-> v, output_url |-> o, image_url |-> i, items |-> it]) :
            v \in {Absent, JStr("v1")},
            o \in {Absent, JStr("o1")},
            i \in {Absent, JStr("i1")},
            it \in {Absent, JList(<<>>),
                    JList(<<JDict([audio_url |-> JStr("u1")])>>),
                    JList(<<JDict([image_url |-> JStr("i2")])>>),
                    JList(<<JDict([audio_url |-> JStr("u1"),
                                   image_url |-> JStr("i2")]),
                            JDict([audio_url |-> JStr("u2")])>>),
                    JList(<<JDict([audio_url |-> JNull]),
                            JDict([audio_url |-> JStr("u2")])>>)}}

TaskStatuses ==
    {Absent, JStr("completed"), JStr("failed"), JStr("pending"), JStr("queued"),
     JStr("executing"), JStr("cancelled")}

\* the task snapshots the remote answers a lookup with
TaskSnapshots ==
    {MkDict([task_id |-> JStr("t1"), type |-> JStr("video"), status |-> st,
             estimated_cost |-> ec, actual_cost |-> ac, error_message |-> em,
             result |-> rs]) :
        st \in TaskStatuses,
        ec \in {Absent, JDec(240)},
        ac \in {Absent, JStr("N/A"), JDec(240), JNum(0), JNull},
        em \in {Absent, JStr("no gpu")},
        rs \in TaskResults}

SnapshotOutcomes == {[kind |-> "ok", body |-> b] : b \in TaskSnapshots}

\* answers to a task creation: with a cost, with a cost of zero or null,
\* without one
CreatedOutcomes ==
    {[kind |-> "ok", body |-> MkDict([task_id |-> JStr("t2"), estimated_cost |-> ec])] :
        ec \in {Absent, JDec(250), JNum(0), JNull}}

\* what the remote may do with a call
RemoteOutcomes(call) ==
    IF call.fn = "make_v3_get_request" THEN Outcomes \cup SnapshotOutcomes
    ELSE IF call.fn = "make_v3_request" THEN Outcomes \cup CreatedOutcomes
    ELSE Outcomes

InitTool ==
    /\ ProxyInit /\ SdkOff /\ TransportOff /\ HookOff
    /\ tool_pc = "start"
    /\ tool_params \in ToolCallInputs
    /\ tool_calls = <<>>
    /\ tool_outcome = NoOutcome
    /\ tool_result = NoResult

\* handle_tools_call(params) up to its transport call
ToolCall ==
    /\ tool_pc = "start"
    /\ LET s == handle_tools_call_start(tool_params)
       IN  IF s.k = "done"
           THEN /\ tool_pc' = "done"
                /\ tool_result' = s.res
                /\ UNCHANGED tool_calls
           ELSE /\ tool_pc' = "called"
                /\ tool_calls' = Append(tool_calls, s)
                /\ UNCHANGED tool_result
    /\ UNCHANGED <<tool_params, tool_outcome, proxyVars, sdkVars, transportVars, hookVars>>

\* the transport call returns and the handler finishes
ToolReply ==
    /\ tool_pc = "called"
    /\ \E o \in RemoteOutcomes(tool_calls[Len(tool_calls)]) :
          /\ tool_outcome' = o
          /\ tool_result' =
                handle_tools_call_finish(
                    tool_params, Transport(tool_calls[Len(tool_calls)].fn, o))
    /\ tool_pc' = "done"
    /\ UNCHANGED <<tool_params, tool_calls, proxyVars, sdkVars, transportVars, hookVars>>

NextTool ==
    \/ ToolCall
    \/ ToolReply

SpecTool == InitTool /\ [][NextTool]_vars

\* the incoming call
ToolName == DictGet(tool_params, "name", JStr(""))
ToolArgs == DictGet(tool_params, "arguments", EmptyDict)

\* the one transport call of the handler
TheCall == tool_calls[1]


(***************************************************************************)
(* C11: generate_video with a non-empty prompt always creates the task,    *)
(* and the payload it sends has duration in {4,6,8}, aspect_ratio in       *)
(* {16:9, 9:16} and resolution in {720p, 1080p}: a valid value is sent     *)
(* unchanged, any other value (or none) becomes 8, 16:9, 720p.             *)
(***************************************************************************)
\* the value of key k that must be sent: the given one if valid, else dflt
Expected(k, valid, dflt) ==
    IF k \in DOMAIN ToolArgs.v /\ ToolArgs.v[k] \in valid THEN ToolArgs.v[k] ELSE dflt

VideoCallWithPrompt ==
    /\ tool_pc \in {"called", "done"}
    /\ ToolName = JStr("generate_video")
    /\ IsDict(ToolArgs)
    /\ Truthy(DictGet(ToolArgs, "prompt", JStr("")))

C11_PayloadIsClamped ==
    (tool_pc \in {"called", "done"} /\ ToolName = JStr("generate_video")
     /\ IsDict(ToolArgs) /\ Truthy(DictGet(ToolArgs, "prompt", JStr("")))) =>
        /\ Len(tool_calls) = 1
        /\ TheCall.fn = "make_v3_request" /\ TheCall.endpoint = "/v3/tasks"
        /\ TheCall.payload.v.type = JStr("video")
        /\ LET p == TheCall.payload.v.params.v
           IN  /\ p.duration \in {JNum(4), JNum(6), JNum(8)}
               /\ p.aspect_ratio \in {JStr("16:9"), JStr("9:16")}
               /\ p.resolution \in {JStr("720p"), JStr("1080p")}
               /\ p.duration = Expected("duration", {JNum(4), JNum(6), JNum(8)}, JNum(8))
               /\ p.aspect_ratio =
                     Expected("aspect_ratio", {JStr("16:9"), JStr("9:16")}, JStr("16:9"))
               /\ p.resolution =
                     Expected("resolution", {JStr("720p"), JStr("1080p")}, JStr("720p"))
               /\ p.prompt = ToolArgs.v.prompt

\* duration 5, aspect ratio 4:3 and resolution 4k were sent as 8, 16:9, 720p
\* and the task was created
C11_Witness ==
    /\ VideoCallWithPrompt /\ tool_pc = "done"
    /\ DictGet(ToolArgs, "duration", None) = JNum(5)
    /\ DictGet(ToolArgs, "aspect_ratio", None) = JStr("4:3")
    /\ DictGet(ToolArgs, "resolution", None) = JStr("4k")
    /\ TheCall.payload.v.params.v.duration = JNum(8)
    /\ tool_outcome = [kind |-> "ok", body |-> JDict([task_id |-> JStr("t1")])]
    /\ ~tool_result.raised
    /\ "isError" \notin DOMAIN tool_result.value.v

(***************************************************************************)
(* C12: estimate_video_cost makes no transport call and reports the cost   *)
(* of the fixed table for (d, audio), d being the given duration when it   *)
(* is 4, 6 or 8 and 8 otherwise: with audio 2.40, 3.60, 4.80, without      *)
(* audio 1.20, 1.80, 2.40.  Its result never has isError.                  *)
(***************************************************************************)
\* the text of the one content item of a tool result
ResultText == tool_result.value.v.content.v[1].v.text.v

EstimateCall ==
    /\ tool_pc = "done"
    /\ ToolName = JStr("estimate_video_cost")
    /\ IsDict(ToolArgs)

\* the fixed table, as the claim states it
C12_Price(d, audio) ==
    IF audio THEN (CASE d = 4 -> "2.40" [] d = 6 -> "3.60" [] d = 8 -> "4.80")
    ELSE (CASE d = 4 -> "1.20" [] d = 6 -> "1.80" [] d = 8 -> "2.40")

C12_EstimateIsLocalTableCost ==
    (ToolName = JStr("estimate_video_cost") /\ IsDict(ToolArgs)) =>
        /\ tool_calls = <<>>
        /\ tool_pc # "called"
        /\ tool_pc = "done" =>
              LET d == Expected("duration", {JNum(4), JNum(6), JNum(8)}, JNum(8))
                  audio == Truthy(DictGet(ToolArgs, "generate_audio", JBool(TRUE)))
              IN  /\ ~tool_result.raised
                  /\ DOMAIN tool_result.value.v = {"content"}
                  /\ Len(tool_result.value.v.content.v) = 1
                  /\ ResultText =
                        "Video Generation Cost Estimate (Veo 3.1):\n\nDuration: "
                        \o NatStr(d.v) \o " seconds\nAudio: "
                        \o (IF audio THEN "Yes" ELSE "No")
                        \o "\nCost: $" \o C12_Price(d.v, audio)
                        \o "\n\nPricing with audio:\n- 4 seconds: $2.40\n- 6 seconds: $3.60\n- 8 seconds: $4.80"
                        \o "\n\nPricing without audio:\n- 4 seconds: $1.20\n- 6 seconds: $1.80\n- 8 seconds: $2.40"

\* duration 6 without audio was estimated at 1.80 with no transport call
C12_Witness ==
    /\ EstimateCall
    /\ DictGet(ToolArgs, "duration", None) = JNum(6)
    /\ DictGet(ToolArgs, "generate_audio", None) = JBool(FALSE)
    /\ tool_calls = <<>> /\ tool_outcome = NoOutcome
    /\ tool_result = Ok(ToolResult(EstimateText(JNum(6), JBool(FALSE), 180)))

(***************************************************************************)
(* C13: generate_video, estimate_video_cost and get_task are the tools     *)
(* with a local handler, and none of them is posted to /tools/call.  A     *)
(* call of any other name makes exactly one transport call, a POST to      *)
(* /tools/call whose body has the name and the arguments of the incoming   *)
(* call ("" and {} for a key the call does not have), and what the         *)
(* transport returns for the remote's reply is the result, as it is.       *)
(***************************************************************************)
IsSpecialTool == ToolName \in {JStr(n) : n \in SpecialTools}

ForwardsToToolsCall ==
    /\ Len(tool_calls) = 1
    /\ TheCall.fn = "make_request" /\ TheCall.verb = "POST"
    /\ TheCall.endpoint = "/tools/call"

C13_OtherToolsAreForwarded ==
    /\ (tool_pc # "start" /\ ~IsSpecialTool) =>
          /\ ForwardsToToolsCall
          /\ DOMAIN TheCall.payload.v = {"name", "arguments"}
          /\ TheCall.payload.v.name =
                (IF "name" \in DOMAIN tool_params.v THEN tool_params.v.name
                 ELSE JStr(""))
          /\ TheCall.payload.v.arguments =
                (IF "arguments" \in DOMAIN tool_params.v THEN tool_params.v.arguments
                 ELSE JDict(<<>>))
          /\ tool_pc = "done" =>
                /\ ~tool_result.raised
                /\ tool_outcome.kind = "ok" => tool_result.value = tool_outcome.body
                /\ tool_outcome.kind # "ok" =>
                      tool_result.value = JDict([error |-> JStr(tool_outcome.text)])
    /\ IsSpecialTool =>
          \A i \in 1..Len(tool_calls) : tool_calls[i].endpoint # "/tools/call"

\* generate_image was forwarded with its arguments and the remote's reply is
\* the result
C13_Witness ==
    /\ tool_pc = "done"
    /\ tool_params = JDict([name |-> JStr("generate_image"),
                            arguments |-> JDict([prompt |-> JStr("a cat")])])
    /\ tool_calls = <<Call("make_request", "POST", "/tools/call", tool_params,
                           TimeoutMcp)>>
    /\ tool_outcome = [kind |-> "ok", body |-> JDict([tools |-> JList(<<>>)])]
    /\ tool_result = Ok(JDict([tools |-> JList(<<>>)]))

(***************************************************************************)
(* Vocabulary of the task lookup claims: a lookup that the remote answered *)
(* with a task snapshot, and the fields of that snapshot.                  *)
(***************************************************************************)
LookupDone ==
    /\ tool_pc = "done"
    /\ ToolName = JStr("get_task")
    /\ Len(tool_calls) = 1
    /\ tool_outcome.kind = "ok"
    /\ IsDict(tool_outcome.body)
    /\ "error" \notin DOMAIN tool_outcome.body.v

Snapshot == tool_outcome.body
SnapStatus == DictGet(Snapshot, "status", JStr("unknown"))
SnapResult == PyOr(DictGet(Snapshot, "result", EmptyDict), EmptyDict)
FirstItem ==
    LET items == DictGet(SnapResult, "items", JList(<<>>))
    IN  IF IsList(items) /\ items.v # <<>> THEN items.v[1] ELSE EmptyDict
AudioUrl == DictGet(FirstItem, "audio_url", None)
VideoUrl == PyOr(DictGet(SnapResult, "video_url", None),
                 DictGet(SnapResult, "output_url", None))
ImageUrl == PyOr(PyOr(DictGet(SnapResult, "image_url", None),
                      DictGet(SnapResult, "output_url", None)),
                 DictGet(FirstItem, "image_url", None))

\* the summary is the cost lines followed by the lines `last`
SummaryEndsWith(last) ==
    /\ ~tool_result.raised
    /\ DOMAIN tool_result.value.v = {"content"}
    /\ ResultText = Join(HeadLines(ToolArgs.v.task_id, Snapshot)
                         \o ActualCostLines(Snapshot) \o last)

(***************************************************************************)
(* C14: the summary of a completed task has at most one media line, by     *)
(* precedence audio, video, image: when items[0].audio_url is there the    *)
(* line is the audio line, whatever video_url, image_url or output_url     *)
(* the result also has.                                                    *)
(***************************************************************************)
C14_AudioBeforeVideoBeforeImage ==
    (LookupDone /\ SnapStatus = JStr("completed")) =>
        IF Truthy(AudioUrl) THEN SummaryEndsWith(<<"\nAudio URL: " \o AudioUrl.v>>)
        ELSE IF Truthy(VideoUrl) THEN SummaryEndsWith(<<"\nVideo URL: " \o VideoUrl.v>>)
        ELSE IF Truthy(ImageUrl) THEN SummaryEndsWith(<<"\nImage URL: " \o ImageUrl.v>>)
        ELSE SummaryEndsWith(<<>>)

\* a completed task with audio_url u1 and also video_url, output_url and
\* image_url: the summary ends with the audio line
C14_Witness ==
    /\ LookupDone /\ SnapStatus = JStr("completed")
    /\ AudioUrl = JStr("u1")
    /\ {"video_url", "output_url", "image_url"} \subseteq DOMAIN SnapResult.v
    /\ DictGet(FirstItem, "image_url", None) = JStr("i2")
    /\ SummaryEndsWith(<<"\nAudio URL: u1">>)

(***************************************************************************)
(* C15: only the summary of a completed task has a media URL line.  For    *)
(* pending, queued and executing the summary ends with the advisory that   *)
(* the task is still in progress, for failed with the error_message when   *)
(* there is one, and for neither is a URL of the result shown.             *)
(***************************************************************************)
SnapErrorMessage == DictGet(Snapshot, "error_message", None)

C15_UrlOnlyWhenCompleted ==
    (LookupDone /\ SnapStatus # JStr("completed")) =>
        IF SnapStatus \in {JStr("pending"), JStr("queued"), JStr("executing")}
        THEN SummaryEndsWith(<<"\nTask is still " \o SnapStatus.v
                               \o ". Check again shortly.">>)
        ELSE IF SnapStatus = JStr("failed") /\ Truthy(SnapErrorMessage)
        THEN SummaryEndsWith(<<"\nError: " \o SnapErrorMessage.v>>)
        ELSE SummaryEndsWith(<<>>)

\* an executing task whose result already has a video URL and an audio URL:
\* the summary ends with the advisory
C15_Witness ==
    /\ LookupDone /\ SnapStatus = JStr("executing")
    /\ VideoUrl = JStr("v1") /\ AudioUrl = JStr("u1")
    /\ SummaryEndsWith(<<"\nTask is still executing. Check again shortly.">>)

\* a failed task with an error_message and a video URL: the summary ends
\* with the error
C15_WitnessFailed ==
    /\ LookupDone /\ SnapStatus = JStr("failed")
    /\ VideoUrl = JStr("v1")
    /\ SummaryEndsWith(<<"\nError: no gpu">>)

(***************************************************************************)
(* C16: the summary always has the line of the estimated cost, and has     *)
(* the line of the actual cost exactly when the snapshot has an            *)
(* actual_cost that is not "N/A", an actual cost of zero included.         *)
(***************************************************************************)
\* the second last and the last of the cost lines
EstimatedCostLine ==
    "Estimated Cost: $" \o PyStr(DictGet(Snapshot, "estimated_cost", JStr("N/A")))
ActualCostLine == "Actual Cost: $" \o PyStr(Snapshot.v.actual_cost)

HasActualCost ==
    /\ "actual_cost" \in DOMAIN Snapshot.v
    /\ Snapshot.v.actual_cost \notin {JStr("N/A"), JNull}

\* the lines of the summary ahead of the line of the status
CostLines(actual) ==
    <<"Task: " \o PyStr(ToolArgs.v.task_id),
      "Type: " \o PyStr(DictGet(Snapshot, "type", JStr("unknown"))),
      "Status: " \o PyStr(SnapStatus),
      EstimatedCostLine>> \o actual

C16_ActualCostShownWhenPresent ==
    LookupDone =>
        /\ ~tool_result.raised
        /\ ResultText =
              Join(CostLines(IF HasActualCost THEN <<ActualCostLine>> ELSE <<>>)
                   \o StatusLines(SnapStatus,
                                  [video |-> VideoUrl, audio |-> AudioUrl,
                                   image |-> ImageUrl],
                                  SnapErrorMessage))

(***************************************************************************)
(* The SDK client (AsyncVAPEClient): _handle_response and _request.        *)
(* An HTTP attempt ends with an outcome record                             *)
(*   [kind |-> "response", status, json, body, text]  an answer; json      *)
(*                          tells whether its body decodes (to body)       *)
(*   [kind |-> "exception", cls, text]  client.request raised the httpx    *)
(*                          exception cls, str(e) = text                   *)
(* An exception object is a record with its class cls and its message;     *)
(* the errors of the SDK also have status_code and response.               *)
(***************************************************************************)
MaxRetriesBound == 3

VAPEError(cls, message, status_code, data) ==
    [cls |-> cls, message |-> message, status_code |-> status_code,
     response |-> data]

Returned(v) == [k |-> "returned", value |-> v]
Raised(e) == [k |-> "raised", error |-> e]

\* the try/except around response.json()
ResponseData(resp) ==
    IF resp.json THEN resp.body ELSE JDict([error |-> JStr(resp.text)])

\* the class and the default message of the typed error of a status
ErrorClass(status) ==
    CASE status = 401 -> "VAPEAuthenticationError"
      [] status = 402 -> "VAPEInsufficientBalanceError"
      [] status = 429 -> "VAPERateLimitError"
      [] status = 400 -> "VAPEValidationError"
      [] status >= 500 -> "VAPEServerError"
      [] OTHER -> "VAPEError"

DefaultMessage(status) ==
    CASE status = 401 -> "Authentication failed"
      [] status = 402 -> "Insufficient balance"
      [] status = 429 -> "Rate limit exceeded"
      [] status = 400 -> "Validation error"
      [] status >= 500 -> "Server error"
      [] OTHER -> "Request failed with status " \o NatStr(status)

_handle_response(resp) ==
    LET data == ResponseData(resp)
    IN  IF resp.status = 200 THEN Returned(data)
        ELSE IF ~IsDict(data)
             THEN Raised([cls |-> "AttributeError",
                          message |-> PyGet(data, "error", None).msg])
        ELSE Raised(VAPEError(ErrorClass(resp.status),
                              DictGet(data, "error",
                                      JStr(DefaultMessage(resp.status))),
                              JNum(resp.status), data))

\* the subclasses of httpx.TimeoutException among the exceptions of the model
HttpxTimeouts == {"httpx.ReadTimeout"}

\* the try block of one attempt: what it returns or raises
Attempted(o) ==
    IF o.kind = "response" THEN _handle_response(o)
    ELSE Raised([cls |-> o.cls, message |-> o.text])

\* as Caught, with the rate limit error among the errors that are retried
CaughtRetryingRateLimit(e) ==
    CASE e.cls \in HttpxTimeouts ->
            [retry |-> TRUE,
             error |-> VAPEError("VAPETimeoutError",
                                 JStr("Request timed out: " \o e.message),
                                 None, EmptyDict)]
      [] e.cls = "httpx.ConnectError" ->
            [retry |-> TRUE,
             error |-> VAPEError("VAPEConnectionError",
                                 JStr("Connection failed: " \o e.message),
                                 None, EmptyDict)]
      [] e.cls \in {"VAPEServerError", "VAPERateLimitError"} ->
            [retry |-> TRUE, error |-> e]
      [] OTHER -> [retry |-> FALSE, error |-> e]

\* the except clauses of _request: whether the exception e of an attempt
\* is one that is retried, and the error that is kept or raised for it
Caught(e) ==
    CASE e.cls \in HttpxTimeouts ->
            [retry |-> TRUE,
             error |-> VAPEError("VAPETimeoutError",
                                 JStr("Request timed out: " \o e.message),
                                 None, EmptyDict)]
      [] e.cls = "httpx.ConnectError" ->
            [retry |-> TRUE,
             error |-> VAPEError("VAPEConnectionError",
                                 JStr("Connection failed: " \o e.message),
                                 None, EmptyDict)]
      [] e.cls \in {"VAPEAuthenticationError", "VAPEInsufficientBalanceError",
                    "VAPEValidationError"} -> [retry |-> FALSE, error |-> e]
      [] e.cls = "VAPERateLimitError" -> [retry |-> FALSE, error |-> e]
      [] e.cls = "VAPEServerError" -> [retry |-> TRUE, error |-> e]
      [] e.cls = "VAPEError" -> [retry |-> FALSE, error |-> e]
      [] OTHER -> [retry |-> FALSE, error |-> e]

\* as _get_client, with a new handle for every call
_get_client_unshared(cur, n) == [handle |-> n + 1, created |-> n + 1]

\* _get_client on self._client = cur, when n handles were created so far:
\* the handle it returns (and leaves in self._client) and the number of
\* handles created after it; it has no await, so it runs in one piece
_get_client(cur, n) ==
    IF cur = NoClient THEN [handle |-> n + 1, created |-> n + 1]
    ELSE [handle |-> cur, created |-> n]

\* as HasNextAttempt, with one iteration more
HasNextAttemptInclusive(attempt, n) == attempt + 1 <= n

\* for attempt in range(n): there is an iteration after attempt
HasNextAttempt(attempt, n) == attempt + 1 < n

\* as NextLastError, keeping the error of the first failure
FirstLastError(last_error, e) == IF last_error = None THEN e ELSE last_error

\* last_error = ... in the except clauses that retry
NextLastError(last_error, e) == e

\* raise last_error
RaiseLastError(last_error) ==
    IF last_error = None
    THEN Raised([cls |-> "TypeError",
                 message |-> "exceptions must derive from BaseException"])
    ELSE Raised(last_error)

\* as Issue, with the next attempt sent along
IssueRacing(fl, c, k, h) ==
    fl \cup {[caller |-> c, attempt |-> k, client |-> h],
             [caller |-> c, attempt |-> k + 1, client |-> h]}

\* await client.request(...): attempt k of caller c is in flight on handle h
Issue(fl, c, k, h) == fl \cup {[caller |-> c, attempt |-> k, client |-> h]}

\* the kind of a finished attempt: "returned", or the class of the error
\* it left
AttemptKind(res) ==
    IF res.k = "returned" THEN "returned"
    ELSE Caught(res.error).error.cls

(***************************************************************************)
(* The client used by concurrent callers: each caller makes one call of    *)
(* _request.  A coroutine runs without interruption from one await of      *)
(* client.request to the next, so a call is one step from its entry to     *)
(* its first attempt and one step from the answer of an attempt to the     *)
(* next attempt or to its end.                                             *)
(***************************************************************************)
\* answers with and without the error key, undecodable and not a mapping
AttemptOutcomes ==
    {[kind |-> "response", status |-> 200, json |-> TRUE,
      body |-> JDict([task_id |-> JStr("t1")]), text |-> ""],
     [kind |-> "response", status |-> 401, json |-> TRUE,
      body |-> JDict([error |-> JStr("bad key")]), text |-> ""],
     [kind |-> "response", status |-> 402, json |-> TRUE,
      body |-> EmptyDict, text |-> ""],
     [kind |-> "response", status |-> 429, json |-> TRUE,
      body |-> JDict([error |-> JStr("slow down"), retry_after |-> JNum(2)]),
      text |-> ""],
     [kind |-> "response", status |-> 400, json |-> FALSE,
      body |-> JNull, text |-> "bad request"],
     [kind |-> "response", status |-> 404, json |-> TRUE,
      body |-> JDict([error |-> JStr("no such task")]), text |-> ""],
     [kind |-> "response", status |-> 500, json |-> TRUE,
      body |-> JDict([error |-> JStr("boom")]), text |-> ""],
     [kind |-> "response", status |-> 503, json |-> TRUE,
      body |-> EmptyDict, text |-> ""],
     [kind |-> "response", status |-> 500, json |-> TRUE,
      body |-> JList(<<>>), text |-> ""],
     [kind |-> "exception", cls |-> "httpx.ReadTimeout", text |-> "read timeout"],
     [kind |-> "exception", cls |-> "httpx.ConnectError", text |-> "refused"],
     [kind |-> "exception", cls |-> "httpx.ReadError", text |-> "reset by peer"]}

InitSdk ==
    /\ ProxyInit /\ ToolOff /\ TransportOff /\ HookOff
    /\ max_retries \in -1..MaxRetriesBound
    /\ _client = NoClient
    /\ created = 0
    /\ rq = [c \in Callers |-> NotCalled]
    /\ inflight = {}
    /\ closed = {}
    /\ close_pc = "idle"

\* caller c calls _request: _get_client, then the loop up to its first await
SdkCall(c) ==
    /\ rq[c].pc = "idle"
    /\ LET got == _get_client(_client, created)
           h == got.handle
       IN  /\ _client' = h
           /\ created' = got.created
           /\ IF HasNextAttempt(-1, max_retries)
              THEN /\ rq' = [rq EXCEPT ![c] = [@ EXCEPT !.pc = "awaiting",
                                                       !.client = h,
                                                       !.attempt = 0,
                                                       !.sent = 1]]
                   /\ inflight' = Issue(inflight, c, 0, h)
              ELSE /\ rq' = [rq EXCEPT ![c] = [@ EXCEPT !.pc = "done",
                                                       !.client = h,
                                                       !.end = RaiseLastError(None)]]
                   /\ UNCHANGED inflight
    /\ UNCHANGED <<max_retries, closed, close_pc, proxyVars, toolVars, transportVars, hookVars>>

\* as SdkReply, raising the failure kept from an earlier attempt when a later
\* attempt succeeds
SdkReplyRaisingEarlier(c, o) ==
    /\ rq[c].pc = "awaiting"
    /\ LET r == rq[c]
           res == Attempted(o)
           landed == {x \in inflight : x.caller # c \/ x.attempt # r.attempt}
           seen == [r EXCEPT !.outcome = o,
                             !.hist = Append(@, AttemptKind(res))]
       IN  IF res.k = "returned"
           THEN /\ rq' = [rq EXCEPT ![c] = [seen EXCEPT
                                               !.pc = "done",
                                               !.end = IF r.last_error = None
                                                       THEN res
                                                       ELSE Raised(r.last_error)]]
                /\ inflight' = landed
           ELSE LET h == Caught(res.error)
                    kept == NextLastError(r.last_error, h.error)
                IN  IF ~h.retry
                    THEN /\ rq' = [rq EXCEPT ![c] = [seen EXCEPT !.pc = "done",
                                                                !.end = Raised(h.error)]]
                         /\ inflight' = landed
                    ELSE IF HasNextAttempt(r.attempt, max_retries)
                    THEN /\ rq' = [rq EXCEPT ![c] = [seen EXCEPT
                                                        !.last_error = kept,
                                                        !.attempt = r.attempt + 1,
                                                        !.sent = r.sent + 1]]
                         /\ inflight' = Issue(landed, c, r.attempt + 1, r.client)
                    ELSE /\ rq' = [rq EXCEPT ![c] = [seen EXCEPT
                                                        !.pc = "done",
                                                        !.last_error = kept,
                                                        !.end = RaiseLastError(kept)]]
                         /\ inflight' = landed
    /\ UNCHANGED <<max_retries, _client, created, closed, close_pc, proxyVars, toolVars, transportVars, hookVars>>

\* the attempt of caller c that is in flight ends with outcome o: the rest
\* of the iteration, and the loop up to its next await or the end of the call
SdkReply(c, o) ==
    /\ rq[c].pc = "awaiting"
    /\ LET r == rq[c]
           res == Attempted(o)
           landed == {x \in inflight : x.caller # c \/ x.attempt # r.attempt}
           seen == [r EXCEPT !.outcome = o,
                             !.hist = Append(@, AttemptKind(res))]
       IN  IF res.k = "returned"
           THEN /\ rq' = [rq EXCEPT ![c] = [seen EXCEPT !.pc = "done", !.end = res]]
                /\ inflight' = landed
           ELSE LET h == Caught(res.error)
                    kept == NextLastError(r.last_error, h.error)
                IN  IF ~h.retry
                    THEN /\ rq' = [rq EXCEPT ![c] = [seen EXCEPT !.pc = "done",
                                                                !.end = Raised(h.error)]]
                         /\ inflight' = landed
                    ELSE IF HasNextAttempt(r.attempt, max_retries)
                    THEN /\ rq' = [rq EXCEPT ![c] = [seen EXCEPT
                                                        !.last_error = kept,
                                                        !.attempt = r.attempt + 1,
                                                        !.sent = r.sent + 1]]
                         /\ inflight' = Issue(landed, c, r.attempt + 1, r.client)
                    ELSE /\ rq' = [rq EXCEPT ![c] = [seen EXCEPT
                                                        !.pc = "done",
                                                        !.last_error = kept,
                                                        !.end = RaiseLastError(kept)]]
                         /\ inflight' = landed
    /\ UNCHANGED <<max_retries, _client, created, closed, close_pc, proxyVars, toolVars, transportVars, hookVars>>

NextSdk ==
    \/ \E c \in Callers : SdkCall(c)
    \/ \E c \in Callers, o \in AttemptOutcomes : SdkReply(c, o)

SpecSdk == InitSdk /\ [][NextSdk]_vars

(***************************************************************************)
(* Vocabulary of the claims on _request                                    *)
(***************************************************************************)
\* the decoded body of an answer
DataOf(o) == IF o.json THEN o.body ELSE JDict([error |-> JStr(o.text)])

\* the attempt that finished last for caller c was answered with one of
\* the statuses, and a body from which the error can be built
AnsweredWithStatus(c, statuses) ==
    /\ rq[c].outcome.kind = "response"
    /\ rq[c].outcome.status \in statuses
    /\ IsDict(DataOf(rq[c].outcome))

InFlightOf(c) == {x \in inflight : x.caller = c}

RetryableKinds == {"VAPEServerError", "VAPETimeoutError", "VAPEConnectionError"}

\* the call of caller c is over and nothing of it is left in flight
Over(c) ==
    /\ rq[c].pc = "done"
    /\ InFlightOf(c) = {}
    /\ rq[c].sent = Len(rq[c].hist)

(***************************************************************************)
(* C17: an answer with status 401, 402, 429 or 400 ends the call at once,  *)
(* on whichever attempt it arrives: no attempt follows it, and the error   *)
(* raised is the typed error of that answer (authentication, insufficient  *)
(* balance, rate limit, validation), not that of an earlier attempt.       *)
(***************************************************************************)
C17_Class(status) ==
    CASE status = 401 -> "VAPEAuthenticationError"
      [] status = 402 -> "VAPEInsufficientBalanceError"
      [] status = 429 -> "VAPERateLimitError"
      [] status = 400 -> "VAPEValidationError"

C17_Message(status) ==
    CASE status = 401 -> "Authentication failed"
      [] status = 402 -> "Insufficient balance"
      [] status = 429 -> "Rate limit exceeded"
      [] status = 400 -> "Validation error"

C17_NotRetriedIsRaisedAtOnce ==
    \A c \in Callers :
        AnsweredWithStatus(c, {401, 402, 429, 400}) =>
            LET o == rq[c].outcome
            IN  /\ Over(c)
                /\ rq[c].end.k = "raised"
                /\ rq[c].end.error.cls = C17_Class(o.status)
                /\ rq[c].end.error.status_code = JNum(o.status)
                /\ rq[c].end.error.message =
                      (IF "error" \in DOMAIN DataOf(o).v THEN DataOf(o).v.error
                       ELSE JStr(C17_Message(o.status)))
                /\ rq[c].end.error.response = DataOf(o)

\* a 429 on the second attempt, after a server error: the rate limit error
\* is raised and two attempts were made of the three allowed
C17_Witness ==
    \E c \in Callers :
        /\ max_retries = 3
        /\ rq[c].hist = <<"VAPEServerError", "VAPERateLimitError">>
        /\ rq[c].pc = "done" /\ rq[c].sent = 2
        /\ rq[c].last_error.cls = "VAPEServerError"
        /\ rq[c].end.k = "raised"
        /\ rq[c].end.error.cls = "VAPERateLimitError"
        /\ rq[c].end.error.message = JStr("slow down")

(***************************************************************************)
(* C18: server errors, timeouts and connection failures are retried up to  *)
(* max_retries: a call never makes more than max_retries attempts (none    *)
(* when max_retries is not positive), and a call all of whose attempts     *)
(* failed with a retried kind has made exactly max_retries attempts when   *)
(* it ends.                                                                *)
(***************************************************************************)
AttemptsAllowed == IF max_retries < 0 THEN 0 ELSE max_retries

AllFailedRetryable(c) ==
    \A i \in 1..Len(rq[c].hist) : rq[c].hist[i] \in RetryableKinds

C18_AtMostMaxRetriesAttempts ==
    \A c \in Callers :
        /\ rq[c].sent <= AttemptsAllowed
        /\ Len(rq[c].hist) <= rq[c].sent
        /\ (rq[c].pc = "done" /\ AllFailedRetryable(c)) =>
              /\ rq[c].sent = AttemptsAllowed
              /\ Over(c)
        /\ (rq[c].pc = "awaiting" /\ rq[c].sent > 1) => AllFailedRetryable(c)

\* with the default of 3, a timeout, a server error and a connection
\* failure: the call ended after three attempts
C18_Witness ==
    \E c \in Callers :
        /\ max_retries = DefaultMaxRetries
        /\ rq[c].pc = "done" /\ rq[c].sent = 3
        /\ rq[c].hist = <<"VAPETimeoutError", "VAPEServerError",
                           "VAPEConnectionError">>

(***************************************************************************)
(* C19: when the attempts are used up, the error raised is the failure of  *)
(* the last attempt as it was classified (for a server error with the      *)
(* status code and the message of that answer), not the failure of an      *)
(* earlier attempt and not a generic error.                                *)
(***************************************************************************)
\* the failure of an attempt with outcome o, as an error of the SDK
C19_Failure(o) ==
    IF o.kind = "response"
    THEN [cls |-> "VAPEServerError",
          message |-> (IF "error" \in DOMAIN DataOf(o).v THEN DataOf(o).v.error
                       ELSE JStr("Server error")),
          status_code |-> JNum(o.status), response |-> DataOf(o)]
    ELSE IF o.cls = "httpx.ReadTimeout"
    THEN [cls |-> "VAPETimeoutError",
          message |-> JStr("Request timed out: " \o o.text),
          status_code |-> JNull, response |-> JDict(<<>>)]
    ELSE [cls |-> "VAPEConnectionError",
          message |-> JStr("Connection failed: " \o o.text),
          status_code |-> JNull, response |-> JDict(<<>>)]

\* the last attempt allowed has failed with a kind that is retried
Exhausted(c) ==
    /\ max_retries >= 1
    /\ Len(rq[c].hist) = max_retries
    /\ \/ AnsweredWithStatus(c, {500, 503})
       \/ /\ rq[c].outcome.kind = "exception"
          /\ rq[c].outcome.cls \in {"httpx.ReadTimeout", "httpx.ConnectError"}

C19_LastFailureIsRaised ==
    \A c \in Callers :
        Exhausted(c) =>
            /\ Over(c)
            /\ rq[c].end = [k |-> "raised", error |-> C19_Failure(rq[c].outcome)]

\* one call with a server error, a timeout and a connection failure ends
\* with the connection failure; another with a 500, a 500 and a 503 ends
\* with the server error of the 503
C19_Witness ==
    \E c, d \in Callers :
        /\ max_retries = 3
        /\ Exhausted(c) /\ Exhausted(d)
        /\ rq[c].hist = <<"VAPEServerError", "VAPETimeoutError",
                           "VAPEConnectionError">>
        /\ rq[c].end.error.cls = "VAPEConnectionError"
        /\ rq[d].hist = <<"VAPEServerError", "VAPEServerError", "VAPEServerError">>
        /\ rq[d].sent = 3
        /\ rq[d].end.error.cls = "VAPEServerError"
        /\ rq[d].end.error.status_code = JNum(503)
        /\ rq[d].end.error.message = JStr("Server error")

(***************************************************************************)
(* C20: the attempts of one call are sequential: at most one attempt of a  *)
(* call is in flight at any time, whatever the other calls on the client   *)
(* do, and attempt k+1 is sent only in the step in which attempt k has     *)
(* finished with a failure that is retried.                                *)
(***************************************************************************)
OneInFlightPerCall ==
    \A c \in Callers :
        /\ Cardinality(InFlightOf(c)) <= 1
        /\ rq[c].pc = "awaiting" <=>
              InFlightOf(c) = {[caller |-> c, attempt |-> rq[c].attempt,
                                client |-> rq[c].client]}
        /\ rq[c].pc = "awaiting" => rq[c].sent = rq[c].attempt + 1

NextAttemptFollowsFailure ==
    \A c \in Callers :
        (rq[c].sent >= 1 /\ rq'[c].sent # rq[c].sent) =>
            /\ rq'[c].sent = rq[c].sent + 1
            /\ rq'[c].attempt = rq[c].attempt + 1
            /\ InFlightOf(c) \cap inflight' = {}
            /\ Len(rq'[c].hist) = rq[c].sent
            /\ rq'[c].hist[rq[c].sent] \in RetryableKinds

C20_AttemptsAreSequential ==
    []OneInFlightPerCall /\ [][NextAttemptFollowsFailure]_vars

\* two calls on the same handle, the first in its second attempt, the
\* second in its first: one attempt of each is in flight
C20_Witness ==
    /\ rq[1].pc = "awaiting" /\ rq[2].pc = "awaiting"
    /\ rq[1].sent = 2 /\ rq[2].sent = 1
    /\ inflight = {[caller |-> 1, attempt |-> 1, client |-> 1],
                   [caller |-> 2, attempt |-> 0, client |-> 1]}

(***************************************************************************)
(* The transport functions on their own: one call of make_request,         *)
(* make_v3_request or make_v3_get_request, and an HTTP exchange that ends  *)
(* with one of ExchangeOutcomes.                                           *)
(***************************************************************************)
TransportFunctions == {"make_request", "make_v3_request", "make_v3_get_request"}

\* the decoded bodies of answers with a status that is not 2xx
ErrorBodies ==
    {JDict([detail |-> JDict([message |-> JStr("bad prompt")])]),
     JDict([detail |-> JDict([message |-> JStr("")])]),
     JDict([detail |-> JDict([message |-> JNull])]),
     JDict([detail |-> JDict([message |-> JNum(5)])]),
     JDict([detail |-> JDict([code |-> JNum(1)])]),
     JDict([detail |-> EmptyDict]),
     JDict([detail |-> JStr("no credit")]),
     JDict([detail |-> JStr("")]),
     JDict([detail |-> JList(<<JStr("a")>>)]),
     JDict([detail |-> JNull]),
     JDict([error |-> JStr("not found")]),
     EmptyDict,
     JList(<<>>), JStr("down"), JNull}

StatusTexts == {"400 Bad Request", "402 Payment Required", "502 Bad Gateway"}

ExchangeOutcomes ==
    Outcomes
    \cup {[kind |-> "exception", text |-> t] :
            t \in {"timed out", "connection refused",
                   "Expecting value: line 1 column 1 (char 0)"}}
    \cup {[kind |-> "status", text |-> t, json |-> TRUE, body |-> b, raw |-> "json"] :
            t \in StatusTexts, b \in ErrorBodies}
    \cup {[kind |-> "status", text |-> t, json |-> FALSE, body |-> JNull, raw |-> r] :
            t \in StatusTexts, r \in {"", "Bad Gateway", Text500, LongText}}

InitTransport ==
    /\ ProxyInit /\ ToolOff /\ SdkOff /\ HookOff
    /\ tr_pc = "start"
    /\ tr_fn \in TransportFunctions
    /\ tr_outcome = NoOutcome
    /\ tr_returned = NoResult

\* the function makes its HTTP exchange and returns
TransportReturn ==
    /\ tr_pc = "start"
    /\ \E o \in ExchangeOutcomes :
          /\ tr_outcome' = o
          /\ tr_returned' = Ok(Transport(tr_fn, o))
    /\ tr_pc' = "returned"
    /\ UNCHANGED <<tr_fn, proxyVars, toolVars, sdkVars, hookVars>>

NextTransport == TransportReturn

SpecTransport == InitTransport /\ [][NextTransport]_vars

(***************************************************************************)
(* C21: a transport function never raises: whatever the HTTP exchange      *)
(* does, it returns the decoded JSON value of a 2xx answer, or else a      *)
(* mapping with the one key error whose value is a string.                 *)
(***************************************************************************)
IsErrorSentinel(v) ==
    /\ IsDict(v)
    /\ DOMAIN v.v = {"error"}
    /\ IsStr(v.v.error)

C21_ReturnsValueOrSentinel ==
    tr_pc = "returned" =>
        /\ ~tr_returned.raised
        /\ IF tr_outcome.kind = "ok"
           THEN tr_returned.value = tr_outcome.body
           ELSE IsErrorSentinel(tr_returned.value)

\* the message of the detail object of the error body is a string, or
\* there is none
MessageIsText ==
    (tr_fn = "make_v3_request" /\ tr_outcome.kind = "status" /\ tr_outcome.json
     /\ IsDict(tr_outcome.body)
     /\ IsDict(DictGet(tr_outcome.body, "detail", EmptyDict))) =>
        IsStr(DictGet(DictGet(tr_outcome.body, "detail", EmptyDict), "message",
                      JStr("")))

\* apart from a detail.message that is not a string, C21 holds
C21_SentinelForTextMessages ==
    (tr_pc = "returned" /\ MessageIsText) => C21_ReturnsValueOrSentinel

(***************************************************************************)
(* C22: the error text of make_v3_request for an answer that is not 2xx:   *)
(* the message of the detail object of the JSON body; the detail itself    *)
(* when it is a string; in every other case the body text cut to 500       *)
(* characters or the text of the exception; never an empty text and never  *)
(* a placeholder such as "{}".                                             *)
(***************************************************************************)
V3Failed ==
    /\ tr_pc = "returned"
    /\ tr_fn = "make_v3_request"
    /\ tr_outcome.kind = "status"

ErrorText == tr_returned.value.v.error

\* the body text, cut to 500 characters
C22_BodyText ==
    IF Len(tr_outcome.raw) <= 500 THEN tr_outcome.raw
    ELSE IF tr_outcome.raw = LongText THEN Text500 ELSE "?"

BodyDetail ==
    IF tr_outcome.json /\ IsDict(tr_outcome.body)
       /\ "detail" \in DOMAIN tr_outcome.body.v
    THEN tr_outcome.body.v.detail ELSE JNull

C22_ErrorTextRule ==
    V3Failed =>
        /\ "error" \in DOMAIN tr_returned.value.v
        /\ ErrorText \notin {JStr(""), JStr("{}")}
        /\ IF IsDict(BodyDetail) /\ "message" \in DOMAIN BodyDetail.v
           THEN ErrorText = BodyDetail.v.message
           ELSE IF IsDict(BodyDetail) THEN TRUE
           ELSE IF IsStr(BodyDetail) THEN ErrorText = BodyDetail
           ELSE ErrorText \in {JStr(C22_BodyText), JStr(tr_outcome.text)}

\* the rule is kept where the body has a detail that is a text or has a
\* message that is one, and where the body is not a JSON object
C22_RuleForTextDetails ==
    (V3Failed /\ \/ ~tr_outcome.json
                 \/ tr_outcome.json /\ ~IsDict(tr_outcome.body)
                 \/ IsStr(BodyDetail) /\ BodyDetail.v # ""
                 \/ /\ IsDict(BodyDetail)
                    /\ IsStr(DictGet(BodyDetail, "message", JNull))
                    /\ DictGet(BodyDetail, "message", JNull).v # "")
    => C22_ErrorTextRule

(***************************************************************************)
(* C23: the connection handle is created on first use and then shared:     *)
(* however the calls of the callers interleave, one handle is created,     *)
(* and every attempt of every call is sent on it.                          *)
(***************************************************************************)
Started(c) == rq[c].pc # "idle"

C23_OneSharedHandle ==
    /\ created <= 1
    /\ (\A c \in Callers : ~Started(c)) => (created = 0 /\ _client = NoClient)
    /\ \A c \in Callers :
          Started(c) =>
              /\ created = 1
              /\ _client # NoClient
              /\ rq[c].client = _client
    /\ \A x \in inflight : x.client = _client

\* both callers have attempts in flight at once, the first in its second
\* attempt: one handle was created and both use it
C23_Witness ==
    /\ created = 1
    /\ \A c \in Callers : rq[c].pc = "awaiting" /\ rq[c].client = _client
    /\ rq[1].sent = 2
    /\ Cardinality(inflight) = 2
    /\ \A x \in inflight : x.client = 1

(***************************************************************************)
(* Webhook signatures (webhooks.py).  A payload is a dict (a JSON object), *)
(* a str or bytes (utf-8 text).  The texts of the model and their JSON     *)
(* reading are tabulated; HMAC-SHA256 is taken as free of collisions: its  *)
(* hex digest is written as a text that names the key and the message.     *)
(***************************************************************************)
JBytes(s) == [t |-> "bytes", v |-> s]

PayloadAB == JDict([a |-> JNum(1), b |-> JNum(2)])
PayloadEvent == JDict([event |-> JStr("test")])

\* json.loads(s) for the texts of the model
LoadsText(s) ==
    CASE s = "{\"a\":1,\"b\":2}" -> Ok(PayloadAB)
      [] s = "{\"b\": 2, \"a\": 1}" -> Ok(PayloadAB)
      [] s = "{\"event\":\"test\"}" -> Ok(PayloadEvent)
      [] s = "{}" -> Ok(EmptyDict)
      [] OTHER -> Raise("JSONDecodeError", "Expecting value")

\* json.dumps(v, separators=(",", ":"), sort_keys=True) for the values of
\* the model
DumpsSorted(v) ==
    CASE v = PayloadAB -> "{\"a\":1,\"b\":2}"
      [] v = PayloadEvent -> "{\"event\":\"test\"}"
      [] v = EmptyDict -> "{}"

\* payload_json of a dict or str payload: the sorted compact dump of the
\* dict or of the JSON the text holds, or the text itself when it holds none
PayloadJson(payload) ==
    IF IsDict(payload) THEN DumpsSorted(payload)
    ELSE LET parsed == LoadsText(payload.v)
         IN  IF parsed.raised THEN payload.v ELSE DumpsSorted(parsed.value)

\* as HmacHex, with a digest that does not depend on the key
HmacHexUnkeyed(secret, signed_payload) == "hmac<><" \o signed_payload \o ">"

\* hmac.new(secret.encode(), signed_payload.encode(), sha256).hexdigest()
HmacHex(secret, signed_payload) == "hmac<" \o secret \o "><" \o signed_payload \o ">"

\* int(x) for the timestamps of the model
IntOf(x) ==
    CASE x.t = "num" -> Ok(x.v)
      [] x.t = "str" ->
            (CASE x.v = "1000" -> Ok(1000)
               [] x.v = " 990 " -> Ok(990)
               [] OTHER -> Raise("ValueError", "invalid literal for int()"))
      [] OTHER -> Raise("TypeError", "int() argument must be a string or a number")

\* int(time.time()) for a clock read in tenths of a second
CurrentTime(clock) == clock \div 10

Abs(n) == IF n < 0 THEN 0 - n ELSE n

DefaultMaxAge == 300

\* generate_webhook_signature(payload, secret, timestamp) at time clock
generate_webhook_signature(payload, secret, timestamp, clock) ==
    LET ts == IF timestamp = None THEN CurrentTime(clock) ELSE timestamp.v
        signed_payload == NatStr(ts) \o "." \o PayloadJson(payload)
    IN  [signature |-> HmacHex(secret, signed_payload), timestamp |-> JNum(ts)]

\* as TooOld, with a timestamp of exactly max_age_seconds refused
TooOldInclusive(current_time, ts, max_age_seconds) ==
    Abs(current_time - ts) >= max_age_seconds

\* abs(current_time - ts) > max_age_seconds
TooOld(current_time, ts, max_age_seconds) ==
    Abs(current_time - ts) > max_age_seconds

\* verify_webhook_signature(payload, signature, timestamp, secret,
\* max_age_seconds) at time clock
verify_webhook_signature(payload, signature, timestamp, secret, max_age_seconds, clock) ==
    LET ts == IntOf(timestamp)
    IN  IF ts.raised THEN FALSE
        ELSE IF TooOld(CurrentTime(clock), ts.value, max_age_seconds) THEN FALSE
        ELSE LET text == IF payload.t = "bytes" THEN JStr(payload.v) ELSE payload
                 signed_payload == NatStr(ts.value) \o "." \o PayloadJson(text)
             IN  signature = HmacHex(secret, signed_payload)

(***************************************************************************)
(* One delivery: the sender signs a payload, the receiver verifies what it *)
(* got: by default the signature and the timestamp the sender produced.    *)
(***************************************************************************)
GenPayloads ==
    {PayloadAB, PayloadEvent, JStr("{\"b\": 2, \"a\": 1}"),
     JStr("{\"a\":1,\"b\":2}"), JStr("not json")}

VerifyPayloads ==
    GenPayloads \cup {JBytes("{\"a\":1,\"b\":2}"), JBytes("not json")}

Secrets == {"s1", "s2"}

\* the timestamp of the X-VAP-Timestamp header: the one produced, or
\* another text, or none
Produced == [t |-> "produced"]
VerifyTimestamps == {Produced, JStr("1000"), JStr(" 990 "), JStr("abc"), JNull}

Forged == "0000"
VerifySignatures == {Produced, JStr(Forged)}

GenInputs ==
    [payload : GenPayloads, secret : Secrets, timestamp : {None, JNum(990)},
     clock : {10000, 10009}]

VerifyInputs ==
    [payload : VerifyPayloads, secret : Secrets, timestamp : VerifyTimestamps,
     signature : VerifySignatures, max_age_seconds : {DefaultMaxAge, 10},
     clock : {6890, 6990, 7000, 10000, 13000, 13009, 13010}]

InitWebhook ==
    /\ ProxyInit /\ ToolOff /\ SdkOff /\ TransportOff
    /\ wh_pc = "start"
    /\ wh_in \in [gen : GenInputs, ver : {<<>>}]
    /\ wh_signed = <<>>
    /\ wh_valid = NoResult

\* the sender calls generate_webhook_signature
Sign ==
    /\ wh_pc = "start"
    /\ wh_signed' = generate_webhook_signature(wh_in.gen.payload, wh_in.gen.secret,
                                               wh_in.gen.timestamp, wh_in.gen.clock)
    /\ wh_pc' = "signed"
    /\ UNCHANGED <<wh_in, wh_valid, proxyVars, toolVars, sdkVars, transportVars>>

\* the receiver calls verify_webhook_signature
Verify ==
    /\ wh_pc = "signed"
    /\ \E v \in VerifyInputs :
          /\ wh_in' = [wh_in EXCEPT !.ver = v]
          /\ wh_valid' =
                Ok(verify_webhook_signature(
                      v.payload,
                      IF v.signature = Produced THEN wh_signed.signature
                      ELSE v.signature.v,
                      IF v.timestamp = Produced THEN wh_signed.timestamp
                      ELSE v.timestamp,
                      v.secret, v.max_age_seconds, v.clock))
    /\ wh_pc' = "verified"
    /\ UNCHANGED <<wh_signed, proxyVars, toolVars, sdkVars, transportVars>>

NextWebhook ==
    \/ Sign
    \/ Verify

SpecWebhook == InitWebhook /\ [][NextWebhook]_vars

(***************************************************************************)
(* Vocabulary of the webhook claims                                        *)
(***************************************************************************)
Gen == wh_in.gen
Ver == wh_in.ver

\* the receiver verified the signature and the timestamp the sender produced
Delivered ==
    /\ wh_pc = "verified"
    /\ Ver.signature = Produced
    /\ Ver.timestamp = Produced

\* the whole seconds of the receiver's clock
VerifyTime == Ver.clock \div 10

\* the canonical form of a payload: the JSON value it holds, or its text
CanonicalForm(p) ==
    IF p \in {PayloadAB, JStr("{\"b\": 2, \"a\": 1}"), JStr("{\"a\":1,\"b\":2}"),
              JBytes("{\"a\":1,\"b\":2}")} THEN "a1b2"
    ELSE IF p = PayloadEvent THEN "event"
    ELSE "text"

(***************************************************************************)
(* C24: round trip.  The signature and timestamp that                      *)
(* generate_webhook_signature produced for a payload and a secret verify   *)
(* with the same payload and secret when the check is made within the age  *)
(* window; with another secret, or with a payload of another canonical     *)
(* form, they do not verify.                                               *)
(***************************************************************************)
WithinWindow ==
    /\ VerifyTime - wh_signed.timestamp.v <= Ver.max_age_seconds
    /\ wh_signed.timestamp.v - VerifyTime <= Ver.max_age_seconds

C24_SignatureRoundTrip ==
    Delivered =>
        /\ (Ver.payload = Gen.payload /\ Ver.secret = Gen.secret /\ WithinWindow)
              => wh_valid = Ok(TRUE)
        /\ (Ver.secret # Gen.secret
            \/ CanonicalForm(Ver.payload) # CanonicalForm(Gen.payload))
              => wh_valid = Ok(FALSE)

\* a text payload with its keys out of order, signed at time 1000 and
\* verified with the same text and secret 300 seconds later
C24_Witness ==
    /\ Delivered
    /\ Gen.payload = JStr("{\"b\": 2, \"a\": 1}") /\ Ver.payload = Gen.payload
    /\ Gen.secret = "s1" /\ Ver.secret = "s1"
    /\ wh_signed = [signature |-> "hmac<s1><1000.{\"a\":1,\"b\":2}>",
                    timestamp |-> JNum(1000)]
    /\ VerifyTime = 1300 /\ Ver.max_age_seconds = 300
    /\ wh_valid = Ok(TRUE)

\* the same delivery verified with another secret
C24_WitnessOtherSecret ==
    /\ Delivered
    /\ Ver.payload = Gen.payload /\ Ver.secret # Gen.secret /\ WithinWindow
    /\ wh_valid = Ok(FALSE)

(***************************************************************************)
(* C25: verify_webhook_signature returns False whenever the timestamp is   *)
(* more than max_age_seconds (300 by default) away from the current time,  *)
(* before it or after it, also for a correct signature; a timestamp of     *)
(* exactly max_age_seconds ago is accepted; a timestamp that is not an     *)
(* integer gives False and no exception.                                   *)
(***************************************************************************)
\* the integer of the timestamp given to the receiver: 0 - 1 when it has none
GivenTimestamp ==
    IF Ver.timestamp = Produced THEN wh_signed.timestamp.v
    ELSE IF Ver.timestamp = JStr("1000") THEN 1000
    ELSE IF Ver.timestamp = JStr(" 990 ") THEN 990
    ELSE 0 - 1

Genuine ==
    /\ Ver.signature = Produced
    /\ Ver.payload = Gen.payload /\ Ver.secret = Gen.secret
    /\ GivenTimestamp = wh_signed.timestamp.v

C25_StaleTimestampIsRefused ==
    wh_pc = "verified" =>
        /\ ~wh_valid.raised
        /\ GivenTimestamp = 0 - 1 => wh_valid = Ok(FALSE)
        /\ (GivenTimestamp >= 0
            /\ \/ VerifyTime - GivenTimestamp > Ver.max_age_seconds
               \/ GivenTimestamp - VerifyTime > Ver.max_age_seconds)
              => wh_valid = Ok(FALSE)
        /\ (Genuine /\ VerifyTime - GivenTimestamp = Ver.max_age_seconds)
              => wh_valid = Ok(TRUE)

\* a genuine delivery of time 1000 checked at 1301 with the default window
\* is refused
C25_Witness ==
    /\ wh_pc = "verified" /\ Genuine
    /\ Ver.max_age_seconds = 300
    /\ GivenTimestamp = 1000 /\ Ver.clock = 13010
    /\ wh_valid = Ok(FALSE)

\* the same delivery checked at 1300 and a fraction is accepted
C25_WitnessAtTheLimit ==
    /\ wh_pc = "verified" /\ Genuine
    /\ Ver.max_age_seconds = 300
    /\ GivenTimestamp = 1000 /\ Ver.clock = 13009
    /\ wh_valid = Ok(TRUE)

\* a timestamp from the future and a timestamp that is no integer
C25_WitnessFutureAndText ==
    /\ wh_pc = "verified"
    /\ \/ Genuine /\ GivenTimestamp = 1000 /\ VerifyTime = 699
       \/ Ver.timestamp = JStr("abc")
    /\ wh_valid = Ok(FALSE)

(***************************************************************************)
(* C26: a line that is empty or has only whitespace is skipped: nothing    *)
(* is written for it, no handler is invoked and no transport call is       *)
(* made, and the loop is ready for the next line.                          *)
(***************************************************************************)
BlankLineRead == nread >= 1 /\ line.kind = "blank"

SkippedLine ==
    BlankLineRead =>
        /\ pc \in {"idle", "closed"}
        /\ emitted = 0 /\ response = None
        /\ handlers = <<>> /\ calls = <<>>
        /\ request = NoRequest

\* the step that reads a blank line leaves stdout as it is
BlankLineWritesNothing ==
    (nread' = nread + 1 /\ line'.kind = "blank") => (stdout' = stdout /\ pc' = "idle")

C26_BlankLineIsSkipped ==
    []SkippedLine /\ [][BlankLineWritesNothing]_vars

\* a request was answered, then a line of whitespace was read: still one
\* line on stdout, and the loop is between lines
C26_Witness ==
    /\ nread = 2 /\ line = [kind |-> "blank", text |-> "\t \r"]
    /\ pc = "idle"
    /\ Len(stdout) = 1 /\ stdout[1].n = 1
    /\ emitted = 0 /\ handlers = <<>> /\ calls = <<>>

(***************************************************************************)
(* C27: the summary of a created video task shows the estimated_cost of    *)
(* the remote's answer whenever the answer has that field, and the cost    *)
(* of the fixed table for the clamped duration and the audio flag only     *)
(* when the answer has none.                                               *)
(***************************************************************************)
VideoCreated ==
    /\ VideoCallWithPrompt /\ tool_pc = "done"
    /\ tool_outcome.kind = "ok"
    /\ IsDict(tool_outcome.body)
    /\ "error" \notin DOMAIN tool_outcome.body.v

\* the text after "Estimated Cost: $" when the remote gives no cost
C27_LocalCost ==
    LET d == TheCall.payload.v.params.v.duration.v
        audio == Truthy(DictGet(ToolArgs, "generate_audio", JBool(TRUE)))
    IN  IF audio THEN (CASE d = 4 -> "2.4" [] d = 6 -> "3.6" [] d = 8 -> "4.8")
        ELSE (CASE d = 4 -> "1.2" [] d = 6 -> "1.8" [] d = 8 -> "2.4")

C27_ShownCost ==
    IF "estimated_cost" \in DOMAIN tool_outcome.body.v
    THEN PyStr(tool_outcome.body.v.estimated_cost)
    ELSE C27_LocalCost

C27_RemoteCostBeforeLocalCost ==
    VideoCreated =>
        LET p == TheCall.payload.v.params.v
        IN  /\ ~tool_result.raised
            /\ DOMAIN tool_result.value.v = {"content"}
            /\ ResultText =
                  "Video generation task created (Veo 3.1)!\n\nTask ID: "
                  \o PyStr(DictGet(tool_outcome.body, "task_id", JStr("unknown")))
                  \o "\nDuration: " \o NatStr(p.duration.v) \o " seconds"
                  \o "\nAspect Ratio: " \o p.aspect_ratio.v
                  \o "\nResolution: " \o p.resolution.v
                  \o "\nAudio: " \o YesNo(p.generate_audio)
                  \o "\nEstimated Cost: $" \o C27_ShownCost
                  \o "\n\nUse get_task with this task_id to check status and get the video URL when complete."

\* 4 seconds without audio, and the remote says 2.5: the summary says 2.5
C27_Witness ==
    /\ VideoCreated
    /\ TheCall.payload.v.params.v.duration = JNum(4)
    /\ DictGet(ToolArgs, "generate_audio", None) = JBool(FALSE)
    /\ tool_outcome.body = JDict([task_id |-> JStr("t2"), estimated_cost |-> JDec(250)])
    /\ C27_ShownCost = "2.5" /\ C27_LocalCost = "1.2"

\* the same call answered without a cost: the summary says 1.2
C27_WitnessLocal ==
    /\ VideoCreated
    /\ TheCall.payload.v.params.v.duration = JNum(4)
    /\ DictGet(ToolArgs, "generate_audio", None) = JBool(FALSE)
    /\ tool_outcome.body = JDict([task_id |-> JStr("t2")])
    /\ C27_ShownCost = "1.2"

(***************************************************************************)
(* C28: outbound HTTP calls per line                                       *)
(***************************************************************************)
\* the methods that have a handler
KnownMethods == {JStr(m) : m \in DOMAIN METHOD_HANDLERS}

\* the line read last is a notification: an object without the key `id`
NotificationLine == IsEnvelope /\ ~HasIdKey

\* ... a request whose method has no handler
UnknownMethodLine == HasIdKey /\ LineMethod \notin KnownMethods

\* ... a tools/call of estimate_video_cost
EstimateLine ==
    /\ IsEnvelope
    /\ LineMethod = JStr("tools/call")
    /\ IsDict(LineParams)
    /\ DictGet(LineParams, "name", None) = JStr("estimate_video_cost")

\* the line read last is one of those that must not reach the remote API
NoCallLine ==
    \/ line.kind \in {"blank", "malformed"}
    \/ NotificationLine
    \/ UnknownMethodLine
    \/ EstimateLine

\* C28: every line causes at most one outbound HTTP call, and none at all
\* when it is empty, malformed JSON, a notification (whatever its method),
\* a request with an unknown method, or a tools/call of estimate_video_cost
C28_AtMostOneCallPerLine ==
    /\ Len(calls) <= 1
    /\ nread > 0 /\ NoCallLine => calls = <<>>

\* a transport call has failed and the line is done with this one call
C28_Witness ==
    /\ LineDone
    /\ Len(calls) = 1
    /\ emitted = 1
    /\ LineMethod = JStr("tools/list")
    /\ response = create_error(LineId, HandlerErrorCode, "timed out")

\* an estimate_video_cost request is answered without any call
C28_WitnessEstimate ==
    /\ LineDone
    /\ EstimateLine
    /\ HasIdKey
    /\ emitted = 1
    /\ calls = <<>>

\* a notification named tools/call is dropped without any call
C28_WitnessNotification ==
    /\ LineDone
    /\ NotificationLine
    /\ LineMethod = JStr("tools/call")
    /\ emitted = 0
    /\ calls = <<>>


(***************************************************************************)
(* C29: how a transport failure is reported                                *)
(***************************************************************************)
\* the line read last calls one of the tools the proxy serves itself
LocalToolLine ==
    /\ IsEnvelope
    /\ LineMethod = JStr("tools/call")
    /\ IsDict(LineParams)
    /\ DictGet(LineParams, "name", None)
           \in {JStr("generate_video"), JStr("get_task")}

\* what the transport function of the pending call returns for outcome o
PendingReturn(o) == Transport(calls[Len(calls)].fn, o)

\* the pending call fails with outcome o: its function returns the sentinel
TransportFails(o) ==
    /\ pc = "http"
    /\ o.kind # "ok"
    /\ IsErrorSentinel(PendingReturn(o))

\* the report of the failure message msg that the line read last must get
FailureReport(msg) ==
    IF LocalToolLine
    THEN create_response(LineId, ToolError("Error: " \o msg))
    ELSE create_error(LineId, HandlerErrorCode, msg)

FailureIsReported ==
    \A o \in Outcomes :
        TransportFails(o) /\ HttpReply(o) =>
            /\ response' = FailureReport(PendingReturn(o).v.error.v)
            /\ emitted' = 1
            /\ stdout' = WriteLine(stdout, nread, response')

\* C29: a transport failure during generate_video or get_task is answered
\* with a success response whose result has isError true and the text
\* "Error: <message>"; during initialize, tools/list, resources/list,
\* resources/read or a forwarded tools/call it is answered with a JSON-RPC
\* error of code -32000; it is never answered with an ordinary result
C29_TransportFailureIsReported == [][FailureIsReported]_vars

\* a failed call of a served tool, or of a forwarded method, has been reported
FailureReported(methods, local) ==
    /\ LineDone
    /\ Len(calls) = 1
    /\ LineMethod \in methods
    /\ LocalToolLine = local
    /\ response = FailureReport("timed out")

C29_Witness ==
    /\ FailureReported({JStr("tools/call")}, TRUE)
    /\ DictGet(LineParams, "name", None) = JStr("get_task")

C29_WitnessVideo ==
    /\ FailureReported({JStr("tools/call")}, TRUE)
    /\ DictGet(LineParams, "name", None) = JStr("generate_video")

C29_WitnessForwarded == FailureReported({JStr("tools/call")}, FALSE)

C29_WitnessMethods ==
    FailureReported({JStr("initialize"), JStr("resources/read")}, FALSE)


(***************************************************************************)
(* C30: the session ends, with one output line per request and per         *)
(* malformed line                                                          *)
(***************************************************************************)
\* The session when stdin is a finite stream (the next line or the end of
\* the stream arrives), the interpreter keeps running process_request, and
\* every transport call returns or fails within its timeout.
SpecFair ==
    /\ Spec
    /\ WF_vars((\E l \in Lines : ReadLine(l)) \/ Eof)
    /\ WF_vars(ProcessRequest)
    /\ WF_vars(\E o \in Outcomes : HttpReply(o))

\* the for loop has ended at the end of the stream
Closed == pc = "closed"

\* one output line for every request and every malformed line read
OutputCountIsDue == Len(stdout) = due

\* C30: the session loop terminates after consuming every line of a finite
\* stream, and at termination the number of output lines is the number of
\* lines that were requests (id present) plus the number of malformed lines
C30_TerminatesWithOneLinePerDue == <>Closed /\ [](Closed => OutputCountIsDue)

\* the loop comes to an end one way or the other: at the end of the stream,
\* or by an exception that escapes process_request
C30_LoopEnds == <>(pc \in {"closed", "crashed"})

\* no line is answered twice and no line that is not due an answer gets one
C30_NeverMoreThanDue == Len(stdout) <= due

\* a session of two answered lines has ended
C30_WitnessClosed == Closed /\ nread = 2 /\ due = 2 /\ Len(stdout) = 2

\* a session has ended with a request left unanswered
C30_WitnessShort == Closed /\ Len(stdout) < due


(***************************************************************************)
(* C31: the first attempt that succeeds ends the call with its decoded     *)
(* body                                                                    *)
(***************************************************************************)
\* the attempt of caller c that finished last was answered with status 200
Succeeded(c) ==
    /\ rq[c].outcome.kind = "response"
    /\ rq[c].outcome.status = 200

\* all attempts of caller c before the last one of hist failed with a kind
\* that is retried
EarlierFailedRetryable(c) ==
    \A i \in 1..(Len(rq[c].hist) - 1) : rq[c].hist[i] \in RetryableKinds

\* C31: when attempt k <= max_retries of a call succeeds after k-1 failures
\* that are retried, the call returns the decoded body of that attempt, no
\* attempt follows it, and none of the earlier failures is raised
C31_FirstSuccessIsReturned ==
    \A c \in Callers :
        Succeeded(c) =>
            /\ Over(c)
            /\ rq[c].sent <= max_retries
            /\ rq[c].hist[rq[c].sent] = "returned"
            /\ EarlierFailedRetryable(c)
            /\ rq[c].end = Returned(DataOf(rq[c].outcome))

\* a success on the third and last attempt, after a timeout and a server
\* error: the body is returned and the server error kept is not raised
C31_Witness ==
    \E c \in Callers :
        /\ max_retries = 3
        /\ Succeeded(c)
        /\ rq[c].hist = <<"VAPETimeoutError", "VAPEServerError", "returned">>
        /\ rq[c].last_error.cls = "VAPEServerError"
        /\ rq[c].end = Returned(JDict([task_id |-> JStr("t1")]))

\* a success on the first attempt of three
C31_WitnessFirst ==
    \E c \in Callers :
        /\ max_retries = 3
        /\ Succeeded(c)
        /\ rq[c].hist = <<"returned">>
        /\ Over(c)


(***************************************************************************)
(* C32: how a call of _request can end, for every max_retries              *)
(***************************************************************************)
\* the classes of exceptions.py
VAPEClasses ==
    {"VAPEError", "VAPEAuthenticationError", "VAPEInsufficientBalanceError",
     "VAPERateLimitError", "VAPEValidationError", "VAPEServerError",
     "VAPEConnectionError", "VAPETimeoutError"}

\* the call of caller c has ended by returning data or by raising an error
\* of the SDK
EndsClassified(c) ==
    \/ rq[c].end.k = "returned"
    \/ rq[c].end.k = "raised" /\ rq[c].end.error.cls \in VAPEClasses

\* C32: for every max_retries, 0 and the negative values included, a call
\* of _request ends by returning decoded data or by raising a classified
\* error of the SDK, never by raising anything else (such as what comes of
\* raising the unset last error when no attempt was made)
C32_EndsWithDataOrClassifiedError ==
    \A c \in Callers : rq[c].pc = "done" => EndsClassified(c)

\* the last attempt of caller c ended in a way the except clauses know:
\* an answer whose decoded body is a mapping, a timeout or a connect error
KnownOutcome(c) ==
    \/ rq[c].outcome.kind = "response" /\ IsDict(DataOf(rq[c].outcome))
    \/ /\ rq[c].outcome.kind = "exception"
       /\ rq[c].outcome.cls \in HttpxTimeouts \cup {"httpx.ConnectError"}

\* with at least one attempt allowed and outcomes the except clauses know,
\* every call ends by returning data or raising a classified error
C32_ClassifiedWhenAttempted ==
    \A c \in Callers :
        (rq[c].pc = "done" /\ max_retries >= 1 /\ KnownOutcome(c)) =>
            EndsClassified(c)

\* with max_retries 0 or negative no attempt is made and the call ends with
\* the TypeError of `raise None`
C32_NoAttemptRaisesTypeError ==
    \A c \in Callers :
        (rq[c].pc = "done" /\ max_retries <= 0) =>
            /\ rq[c].sent = 0
            /\ rq[c].end.k = "raised"
            /\ rq[c].end.error.cls = "TypeError"

\* a call has ended without an attempt, max_retries being 0
C32_WitnessZero ==
    \E c \in Callers :
        max_retries = 0 /\ rq[c].pc = "done" /\ rq[c].end.error.cls = "TypeError"


(***************************************************************************)
(* _handle_response over the status codes: one caller, whose attempts are  *)
(* answered with any status of StatusCodes and any body of StatusBodies    *)
(***************************************************************************)
StatusCodes ==
    {100, 200, 201, 204, 302, 400, 401, 402, 403, 404, 418, 429, 499,
     500, 502, 503, 599}

\* bodies: a mapping with and without the key error, text that is not
\* JSON, no body at all, and JSON that is not a mapping
StatusBodies ==
    {[json |-> TRUE, body |-> JDict([error |-> JStr("because")]), text |-> ""],
     [json |-> TRUE, body |-> EmptyDict, text |-> ""],
     [json |-> FALSE, body |-> JNull, text |-> "<html>"],
     [json |-> FALSE, body |-> JNull, text |-> ""],
     [json |-> TRUE, body |-> JList(<<>>), text |-> ""],
     [json |-> TRUE, body |-> JNull, text |-> ""]}

StatusOutcomes ==
    {[kind |-> "response", status |-> st, json |-> b.json, body |-> b.body,
      text |-> b.text] : st \in StatusCodes, b \in StatusBodies}
    \cup {[kind |-> "exception", cls |-> "httpx.ReadTimeout",
           text |-> "read timeout"]}

InitResponse ==
    /\ InitSdk
    /\ max_retries \in {1, 2}

NextResponse ==
    \/ SdkCall(1)
    \/ \E o \in StatusOutcomes : SdkReply(1, o)

SpecResponse == InitResponse /\ [][NextResponse]_vars

(***************************************************************************)
(* C33: the classification of an answer by its status code                 *)
(***************************************************************************)
\* the kind of error of a status other than 200
C33_Class(status) ==
    CASE status = 401 -> "VAPEAuthenticationError"
      [] status = 402 -> "VAPEInsufficientBalanceError"
      [] status = 429 -> "VAPERateLimitError"
      [] status = 400 -> "VAPEValidationError"
      [] status \in 500..599 -> "VAPEServerError"
      [] OTHER -> "VAPEError"

\* what the attempt of caller c that finished last came to: "returned" or
\* the class of the exception it raised
LastKind(c) == rq[c].hist[Len(rq[c].hist)]

\* the attempt of caller c that finished last was answered, and classified
\* by its status: the body returned for 200 only, the typed error of the
\* status otherwise, and the call ended at once by the generic error
ClassifiedByStatus(c) ==
    LET o == rq[c].outcome
    IN  /\ (LastKind(c) = "returned") = (o.status = 200)
        /\ o.status = 200 => rq[c].end = Returned(DataOf(o))
        /\ o.status # 200 => LastKind(c) = C33_Class(o.status)
        /\ (o.status # 200 /\ C33_Class(o.status) = "VAPEError") =>
              /\ Over(c)
              /\ rq[c].end.k = "raised"
              /\ rq[c].end.error.cls = "VAPEError"
              /\ rq[c].end.error.status_code = JNum(o.status)

\* C33: _handle_response classifies every answer by its status code: the
\* body is returned for 200 only; 401, 402, 429, 400 and every status from
\* 500 raise their typed error; every other status (201, 204, 403, 404 ...)
\* raises the generic error, which _request does not retry
C33_TotalClassificationByStatus ==
    \A c \in Callers :
        rq[c].outcome.kind = "response" => ClassifiedByStatus(c)

\* the classification holds for every answer whose decoded body is a
\* mapping (a body that is not JSON is decoded as {error: <text>})
C33_ClassifiedWhenBodyIsMapping ==
    \A c \in Callers :
        (rq[c].outcome.kind = "response" /\ IsDict(DataOf(rq[c].outcome))) =>
            ClassifiedByStatus(c)

\* an answer that is not 200 and whose JSON body is not a mapping raises
\* AttributeError
C33_OtherBodiesRaiseAttributeError ==
    \A c \in Callers :
        (/\ rq[c].outcome.kind = "response"
         /\ rq[c].outcome.status # 200
         /\ ~IsDict(DataOf(rq[c].outcome))) =>
            /\ LastKind(c) = "AttributeError"
            /\ rq[c].end.k = "raised"
            /\ rq[c].end.error.cls = "AttributeError"

\* a 204 without a body on the second attempt, after a 502: the generic
\* error is raised and the call is over
C33_WitnessGeneric ==
    /\ max_retries = 2
    /\ rq[1].hist = <<"VAPEServerError", "VAPEError">>
    /\ rq[1].outcome.status = 204 /\ ~rq[1].outcome.json
    /\ rq[1].end.error.message = JStr("")
    /\ Over(1)

\* a 500 whose body is the JSON list []
C33_WitnessList ==
    /\ rq[1].outcome.kind = "response"
    /\ rq[1].outcome.status = 500
    /\ rq[1].outcome.body = JList(<<>>) /\ rq[1].outcome.json
    /\ rq[1].end.error.cls = "AttributeError"


(***************************************************************************)
(* The client with close(): callers that call _request, and close() run    *)
(* beside them.  close() is two steps: up to `await self._client.aclose()` *)
(* (aclose marks the handle closed before it suspends), and the            *)
(* assignment self._client = None after it.  A request sent on a closed    *)
(* handle is refused at once with RuntimeError, which no except clause of  *)
(* _request takes.                                                         *)
(***************************************************************************)
MaxCloses == 2

\* what client.request raises on a handle that has been closed
ClosedClientError ==
    [cls |-> "RuntimeError",
     message |-> "Cannot send a request, as the client has been closed."]

\* how an attempt can end when close() may run while it is in flight
CloseOutcomes ==
    {[kind |-> "response", status |-> 200, json |-> TRUE,
      body |-> JDict([task_id |-> JStr("t1")]), text |-> ""],
     [kind |-> "response", status |-> 500, json |-> TRUE,
      body |-> JDict([error |-> JStr("boom")]), text |-> ""],
     [kind |-> "exception", cls |-> "httpx.ReadTimeout", text |-> "read timeout"],
     [kind |-> "exception", cls |-> "httpx.ReadError", text |-> "reset by peer"]}

\* caller c calls _request: as SdkCall, but the first attempt is refused
\* when _get_client hands out a handle that has been closed
CloseCall(c) ==
    LET got == _get_client(_client, created)
    IN  IF got.handle \in closed /\ HasNextAttempt(-1, max_retries)
        THEN /\ rq[c].pc = "idle"
             /\ _client' = got.handle
             /\ created' = got.created
             /\ rq' = [rq EXCEPT ![c] = [@ EXCEPT
                                           !.pc = "done",
                                           !.client = got.handle,
                                           !.attempt = 0,
                                           !.sent = 1,
                                           !.hist = <<"RuntimeError">>,
                                           !.end = Raised(ClosedClientError)]]
             /\ UNCHANGED <<max_retries, inflight, closed, close_pc>>
             /\ UNCHANGED <<proxyVars, toolVars, transportVars, hookVars>>
        ELSE SdkCall(c)

\* the attempt of caller c ends with outcome o: as SdkReply, but the next
\* attempt is refused when the handle of the call has been closed
CloseReply(c, o) ==
    LET r == rq[c]
        res == Attempted(o)
        retrying == /\ res.k = "raised"
                    /\ Caught(res.error).retry
                    /\ HasNextAttempt(r.attempt, max_retries)
    IN  IF r.pc = "awaiting" /\ retrying /\ r.client \in closed
        THEN /\ rq' = [rq EXCEPT ![c] = [r EXCEPT
                          !.pc = "done",
                          !.outcome = o,
                          !.hist = @ \o <<AttemptKind(res), "RuntimeError">>,
                          !.last_error = NextLastError(r.last_error,
                                                       Caught(res.error).error),
                          !.attempt = r.attempt + 1,
                          !.sent = r.sent + 1,
                          !.end = Raised(ClosedClientError)]]
             /\ inflight' = {x \in inflight : x.caller # c}
             /\ UNCHANGED <<max_retries, _client, created, closed, close_pc>>
             /\ UNCHANGED <<proxyVars, toolVars, transportVars, hookVars>>
        ELSE SdkReply(c, o)

\* close() up to its await: `if self._client:` and the call of aclose()
CloseStart ==
    /\ close_pc = "idle"
    /\ _client # NoClient
    /\ Cardinality(closed) < MaxCloses
    /\ closed' = closed \cup {_client}
    /\ close_pc' = "closing"
    /\ UNCHANGED <<max_retries, _client, created, rq, inflight>>
    /\ UNCHANGED <<proxyVars, toolVars, transportVars, hookVars>>

\* close() after its await: self._client = None
CloseFinish ==
    /\ close_pc = "closing"
    /\ _client' = NoClient
    /\ close_pc' = "idle"
    /\ UNCHANGED <<max_retries, created, rq, inflight, closed>>
    /\ UNCHANGED <<proxyVars, toolVars, transportVars, hookVars>>

InitClose ==
    /\ InitSdk
    /\ max_retries \in {1, 2}

NextClose ==
    \/ \E c \in Callers : CloseCall(c)
    \/ \E c \in Callers, o \in CloseOutcomes : CloseReply(c, o)
    \/ CloseStart
    \/ CloseFinish

SpecClose == InitClose /\ [][NextClose]_vars

(***************************************************************************)
(* C34: no attempt on a handle that has been closed                        *)
(***************************************************************************)
\* caller c sends an attempt in this step
Sends(c) == rq'[c].sent > rq[c].sent

\* the attempts sent in this step go to handles that are not closed
NoAttemptOnClosedHandle ==
    \A c \in Callers : Sends(c) => rq'[c].client \notin closed

\* C34: however calls of _request and close() interleave on one client, no
\* attempt is sent on a handle that has been closed: a call that got its
\* handle before close() does not use it for a later attempt, and a call
\* that starts after close() creates a new handle
C34_NoAttemptOnClosedHandle == [][NoAttemptOnClosedHandle]_vars

\* a call that starts when close() is over (self._client is None) creates a
\* new handle, which is not closed, and sends its first attempt on it
FreshHandleAfterClose ==
    \A c \in Callers :
        (rq[c].pc = "idle" /\ rq'[c].pc # "idle" /\ _client = NoClient) =>
            /\ created' = created + 1
            /\ _client' = created'
            /\ rq'[c].client = created'
            /\ created' \notin closed

C34_FreshHandleAfterClose == [][FreshHandleAfterClose]_vars

\* the only attempts sent on a closed handle are the retries of calls that
\* got the handle before close(), and the first attempts of calls that
\* start between aclose() and self._client = None
OnlyStaleOrDuringClose ==
    \A c \in Callers :
        (Sends(c) /\ rq'[c].client \in closed) =>
            \/ rq[c].pc = "awaiting"
            \/ rq[c].pc = "idle" /\ close_pc = "closing"

C34_OnlyStaleOrDuringClose == [][OnlyStaleOrDuringClose]_vars

\* a call retried on the handle it got before close() ran to its end
C34_WitnessRetry ==
    \E c \in Callers :
        /\ rq[c].hist = <<"VAPETimeoutError", "RuntimeError">>
        /\ rq[c].client \in closed
        /\ close_pc = "idle" /\ _client = NoClient
        /\ rq[c].end = Raised(ClosedClientError)

\* a call started while close() was in aclose() and got the closed handle
C34_WitnessDuringClose ==
    \E c \in Callers :
        /\ rq[c].hist = <<"RuntimeError">>
        /\ rq[c].client \in closed
        /\ close_pc = "closing"

\* a call started after close() and is on a second, open handle
C34_WitnessFresh ==
    \E c \in Callers :
        /\ rq[c].pc = "awaiting"
        /\ rq[c].client = 2 /\ created = 2
        /\ closed = {1}


=============================================================================
